---------------------------- MODULE Spec2Model ----------------------------
(***************************************************************************)
(* A model of lib/SIL/InstructionUtils.cpp: the SIL value strippers, the   *)
(* formal-access base finder, the closure finder and the function          *)
(* ownership evaluator.                                                    *)
(*                                                                         *)
(* Spec        the FunctionOwnershipEvaluator state machine                *)
(* SpecStrip   the strip / getUnderlying* functions over SIL value graphs  *)
(* SpecAccess  findAccessedAddressBase / isPossibleFormalAccessBase        *)
(* SpecClosure findClosureForAppliedArg                                    *)
(* SpecVisit   OwnershipQualifiedKindVisitor                               *)
(* SpecCycle   the strippers over control flow with a cycle                *)
(***************************************************************************)
EXTENDS Naturals, Sequences, FiniteSets

VARIABLES
  hasQualifiedOwnership,             \* SILFunction flag, one per function
  HasOwnershipQualifiedInstruction,  \* FunctionOwnershipEvaluator field, one per function
  log,                               \* per function: the evaluate calls made so far
  ir,                                \* the SIL value graph: a sequence of nodes
  call                               \* the last analysis call: function, argument, result

vars == <<hasQualifiedOwnership, HasOwnershipQualifiedInstruction, log, ir, call>>

(***************************************************************************)
(* Bounds.                                                                 *)
(***************************************************************************)
\* most evaluate calls made on one function
MaxInsts == 4

\* most nodes of a SIL value graph given to the strippers
MaxNodes == 3

\* most nodes of a SIL value graph given to findAccessedAddressBase
MaxAccessNodes == 3

\* most instructions of a body given to OwnershipQualifiedKindVisitor
MaxVisited == 2

\* most values built one on another in a graph given to findClosureForAppliedArg
MaxClosureSteps == 3

\* the functions under evaluation, each with its own evaluator
Funcs == {"f", "g"}

NoCall == [fn |-> "none"]

(***************************************************************************)
(* The ownership evaluator.                                                *)
(***************************************************************************)

\* The instruction kinds OwnershipQualifiedKindVisitor names, and three of
\* the kinds that fall to visitSILInstruction.
QualifiedInsts ==
  {"EndBorrowInst", "LoadBorrowInst", "CopyValueInst", "CopyUnownedValueInst",
   "DestroyValueInst"}

OtherInsts == {"DebugValueInst", "AllocStackInst", "ApplyInst"}

LoadOwnershipQualifier == {"Unqualified", "Take", "Copy", "Trivial"}

StoreOwnershipQualifier == {"Unqualified", "Init", "Assign", "Trivial"}

\* An instruction: its kind, its ownership qualifier (loads and stores
\* only), the function it belongs to.
Instructions ==
  [kind : QualifiedInsts \cup OtherInsts, qual : {"None"}, function : Funcs]
    \cup [kind : {"LoadInst"}, qual : LoadOwnershipQualifier, function : Funcs]
    \cup [kind : {"StoreInst"}, qual : StoreOwnershipQualifier, function : Funcs]

OwnershipQualifiedKind == {"NotApplicable", "Qualified", "Unqualified"}

\* The visitor with visitStoreInst left to visitSILInstruction.
OwnershipQualifiedKindVisitor_StoreNotVisited(I) ==
  CASE I.kind \in QualifiedInsts -> "Qualified"
    [] I.kind = "LoadInst" ->
         IF I.qual = "Unqualified" THEN "Unqualified" ELSE "Qualified"
    [] OTHER -> "NotApplicable"

OwnershipQualifiedKindVisitor(I) ==
  CASE I.kind \in QualifiedInsts -> "Qualified"
    [] I.kind = "LoadInst" ->
         IF I.qual = "Unqualified" THEN "Unqualified" ELSE "Qualified"
    [] I.kind = "StoreInst" ->
         IF I.qual = "Unqualified" THEN "Unqualified" ELSE "Qualified"
    [] OTHER -> "NotApplicable"

\* evaluate without the HasOwnershipQualifiedInstruction test: an unqualified
\* instruction always turns a qualified function unqualified.
evaluateKind_NoEvidenceTest(K, hq, seen) ==
  CASE K = "Unqualified" ->
         IF ~hq THEN [ret |-> TRUE, hq |-> hq, seen |-> seen]
         ELSE [ret |-> TRUE, hq |-> FALSE, seen |-> seen]
    [] K = "Qualified" ->
         IF ~hq THEN [ret |-> FALSE, hq |-> hq, seen |-> seen]
         ELSE [ret |-> TRUE, hq |-> hq, seen |-> TRUE]
    [] K = "NotApplicable" -> [ret |-> TRUE, hq |-> hq, seen |-> seen]

\* evaluate without the hasQualifiedOwnership test of the Qualified case.
evaluateKind_QualifiedUnchecked(K, hq, seen) ==
  CASE K = "Unqualified" ->
         IF ~hq THEN [ret |-> TRUE, hq |-> hq, seen |-> seen]
         ELSE IF seen THEN [ret |-> FALSE, hq |-> hq, seen |-> seen]
         ELSE [ret |-> TRUE, hq |-> FALSE, seen |-> seen]
    [] K = "Qualified" -> [ret |-> TRUE, hq |-> hq, seen |-> TRUE]
    [] K = "NotApplicable" -> [ret |-> TRUE, hq |-> hq, seen |-> seen]

\* evaluate counting a NotApplicable instruction as qualified evidence.
evaluateKind_NotApplicableIsEvidence(K, hq, seen) ==
  CASE K = "Unqualified" ->
         IF ~hq THEN [ret |-> TRUE, hq |-> hq, seen |-> seen]
         ELSE IF seen THEN [ret |-> FALSE, hq |-> hq, seen |-> seen]
         ELSE [ret |-> TRUE, hq |-> FALSE, seen |-> seen]
    [] K = "Qualified" ->
         IF ~hq THEN [ret |-> FALSE, hq |-> hq, seen |-> seen]
         ELSE [ret |-> TRUE, hq |-> hq, seen |-> TRUE]
    [] K = "NotApplicable" -> [ret |-> TRUE, hq |-> hq, seen |-> hq]

\* evaluate noting the evidence of a qualified instruction before it tests
\* the ownership of the function.
evaluateKind_EvidenceBeforeTest(K, hq, seen) ==
  CASE K = "Unqualified" ->
         IF ~hq THEN [ret |-> TRUE, hq |-> hq, seen |-> seen]
         ELSE IF seen THEN [ret |-> FALSE, hq |-> hq, seen |-> seen]
         ELSE [ret |-> TRUE, hq |-> FALSE, seen |-> seen]
    [] K = "Qualified" ->
         IF ~hq THEN [ret |-> FALSE, hq |-> hq, seen |-> TRUE]
         ELSE [ret |-> TRUE, hq |-> hq, seen |-> TRUE]
    [] K = "NotApplicable" -> [ret |-> TRUE, hq |-> hq, seen |-> seen]

\* evaluate's switch on an instruction of kind K, from the flags hq
\* (F->hasQualifiedOwnership()) and seen (HasOwnershipQualifiedInstruction):
\* the value returned and the flags afterwards.
evaluateKind(K, hq, seen) ==
  CASE K = "Unqualified" ->
         IF ~hq THEN [ret |-> TRUE, hq |-> hq, seen |-> seen]
         ELSE IF seen THEN [ret |-> FALSE, hq |-> hq, seen |-> seen]
         ELSE [ret |-> TRUE, hq |-> FALSE, seen |-> seen]
    [] K = "Qualified" ->
         IF ~hq THEN [ret |-> FALSE, hq |-> hq, seen |-> seen]
         ELSE [ret |-> TRUE, hq |-> hq, seen |-> TRUE]
    [] K = "NotApplicable" -> [ret |-> TRUE, hq |-> hq, seen |-> seen]

\* The assert of evaluate: I belongs to the function of the evaluator.
belongsTo_Never(f, I) == FALSE

belongsTo(f, I) == I.function = f

\* evaluate with the evidence of qualified instructions shared by all
\* evaluators.
evaluate_SharedEvidence(f, I) ==
  /\ call = NoCall
  /\ Len(log[f]) < MaxInsts
  /\ \/ /\ ~belongsTo(f, I)
        /\ call' = [fn |-> "evaluate", arg |-> f, inst |-> I.function,
                    res |-> [st |-> "assert"]]
        /\ UNCHANGED <<hasQualifiedOwnership, HasOwnershipQualifiedInstruction,
                       log, ir>>
     \/ LET K == OwnershipQualifiedKindVisitor(I)
            r == evaluateKind(K, hasQualifiedOwnership[f],
                              \E g \in Funcs : HasOwnershipQualifiedInstruction[g])
        IN /\ hasQualifiedOwnership' = [hasQualifiedOwnership EXCEPT ![f] = r.hq]
           /\ HasOwnershipQualifiedInstruction' =
                [HasOwnershipQualifiedInstruction EXCEPT ![f] = r.seen]
           /\ log' = [log EXCEPT ![f] =
                Append(@, [kind |-> K, accepted |-> r.ret,
                           pre |-> <<hasQualifiedOwnership[f],
                                     HasOwnershipQualifiedInstruction[f]>>,
                           post |-> <<r.hq, r.seen>>])]
           /\ UNCHANGED <<ir, call>>

\* FunctionOwnershipEvaluator::evaluate of the evaluator of function f on
\* instruction I.  On an instruction of another function the assert fails
\* and the program stops, in a build with assertions; in a build without
\* them the call goes on as on any instruction.
evaluate(f, I) ==
  /\ call = NoCall
  /\ Len(log[f]) < MaxInsts
  /\ \/ /\ ~belongsTo(f, I)
        /\ call' = [fn |-> "evaluate", arg |-> f, inst |-> I.function,
                    res |-> [st |-> "assert"]]
        /\ UNCHANGED <<hasQualifiedOwnership, HasOwnershipQualifiedInstruction,
                       log, ir>>
     \/ LET K == OwnershipQualifiedKindVisitor(I)
            r == evaluateKind(K, hasQualifiedOwnership[f],
                              HasOwnershipQualifiedInstruction[f])
        IN /\ hasQualifiedOwnership' = [hasQualifiedOwnership EXCEPT ![f] = r.hq]
           /\ HasOwnershipQualifiedInstruction' =
                [HasOwnershipQualifiedInstruction EXCEPT ![f] = r.seen]
           /\ log' = [log EXCEPT ![f] =
                Append(@, [kind |-> K, accepted |-> r.ret,
                           pre |-> <<hasQualifiedOwnership[f],
                                     HasOwnershipQualifiedInstruction[f]>>,
                           post |-> <<r.hq, r.seen>>])]
           /\ UNCHANGED <<ir, call>>

Evaluate == \E f \in Funcs : \E I \in Instructions : evaluate(f, I)

\* A function starts with qualified ownership and an evaluator that has
\* seen no qualified instruction.
InitOwnership ==
  /\ hasQualifiedOwnership = [f \in Funcs |-> TRUE]
  /\ HasOwnershipQualifiedInstruction = [f \in Funcs |-> FALSE]
  /\ log = [f \in Funcs |-> <<>>]

Init ==
  /\ InitOwnership
  /\ ir = <<>>
  /\ call = NoCall

Next == Evaluate

Spec == Init /\ [][Next]_vars

(***************************************************************************)
(* SIL values.  ir is a sequence of nodes; node V is the record ir[V] and   *)
(* a SILValue is its position.  0 is the null SILValue.                    *)
(*   kind   the ValueKind                                                  *)
(*   ops    the operands, by position; of a block argument: what the       *)
(*          terminator of the predecessor passes for it (br: <<arg>>,      *)
(*          cond_br: <<arg on the true edge, arg on the false edge>>,      *)
(*          switch_enum, checked_cast_br: <<the value switched on>>), or   *)
(*          what each of two predecessors passes for it                    *)
(*   ty     the category of the value's type                               *)
(*   attr   what the kind needs besides                                    *)
(*   preds  of an argument: the number of predecessors of its block        *)
(*   term   of an argument: the terminator kind of the predecessors        *)
(*   dest   of an argument: the cond_br successor its block is             *)
(***************************************************************************)
NoValue == 0

Kind(V) == ir[V].kind

NumOperands(V) == Len(ir[V].ops)

Operand(V, i) == ir[V].ops[i]

\* The outcome of a call: how it ended ("ok": it returned, "assert": an
\* assert failed, "unreachable": it ran into llvm_unreachable, "diverged":
\* its loop never ends), the value returned or stopped at, and the number of
\* operand edges followed.
Ok(V, n) == [st |-> "ok", v |-> V, n |-> n]

AssertFails(V, n) == [st |-> "assert", v |-> V, n |-> n]

Unreachable(V, n) == [st |-> "unreachable", v |-> V, n |-> n]

Diverged(V, n) == [st |-> "diverged", v |-> V, n |-> n]

\* A walk that has followed more edges than the graph has nodes is at a node
\* for the second time, and will be for ever.
Revisits(n) == n > Len(ir)

\* SILArgument: SILPHIArgument and SILFunctionArgument.
isSILArgument(V) == Kind(V) \in {"SILPHIArgument", "SILFunctionArgument"}

\* SILBasicBlock::getSinglePredecessorBlock of the argument's block.
hasSinglePredecessorBlock(A) == ir[A].preds = 1

\* CondBranchInst::getArgForDestBB: the operand for the edge to the
\* argument's own block; none when both edges lead to it.
getArgForDestBB(A) ==
  CASE ir[A].dest = "True" -> Operand(A, 1)
    [] ir[A].dest = "False" -> Operand(A, 2)
    [] OTHER -> NoValue

isRCIdentityPreservingCast(K) ==
  K \in {"UpcastInst", "UncheckedRefCastInst", "UnconditionalCheckedCastInst",
         "UnconditionalCheckedCastValueInst", "RefToBridgeObjectInst",
         "BridgeObjectToRefInst"}

\* Projection::isAddressProjection
isAddressProjection(V) ==
  \/ Kind(V) \in {"StructElementAddrInst", "RefElementAddrInst", "RefTailAddrInst",
                  "ProjectBoxInst", "TupleElementAddrInst",
                  "UncheckedTakeEnumDataAddrInst"}
  \/ Kind(V) = "IndexAddrInst" /\ ir[V].attr = "constIndex"

\* Projection::isObjectProjection
isObjectProjection(V) ==
  Kind(V) \in {"StructExtractInst", "TupleExtractInst", "UncheckedEnumDataInst"}

\* isa<IndexingInst>
isIndexingInst(V) ==
  Kind(V) \in {"IndexAddrInst", "TailAddrInst", "IndexRawPointerInst"}

\* stripSinglePredecessorArgs without the test for a single predecessor.
RECURSIVE stripSinglePredecessorArgsRun_AnyPredecessors(_, _)
stripSinglePredecessorArgsRun_AnyPredecessors(V, n) ==
  IF Revisits(n) THEN Diverged(V, n)
  ELSE IF ~isSILArgument(V) THEN Ok(V, n)
  ELSE IF ir[V].preds = 0 THEN Ok(V, n)
  ELSE IF ir[V].term = "BranchInst"
    THEN stripSinglePredecessorArgsRun_AnyPredecessors(Operand(V, 1), n + 1)
  ELSE IF ir[V].term = "CondBranchInst" /\ getArgForDestBB(V) # NoValue
    THEN stripSinglePredecessorArgsRun_AnyPredecessors(getArgForDestBB(V), n + 1)
  ELSE Ok(V, n)

\* stripSinglePredecessorArgs taking the true edge's argument of a cond_br.
RECURSIVE stripSinglePredecessorArgsRun_TrueEdge(_, _)
stripSinglePredecessorArgsRun_TrueEdge(V, n) ==
  IF Revisits(n) THEN Diverged(V, n)
  ELSE IF ~isSILArgument(V) THEN Ok(V, n)
  ELSE IF ~hasSinglePredecessorBlock(V) THEN Ok(V, n)
  ELSE IF ir[V].term = "BranchInst"
    THEN stripSinglePredecessorArgsRun_TrueEdge(Operand(V, 1), n + 1)
  ELSE IF ir[V].term = "CondBranchInst"
    THEN stripSinglePredecessorArgsRun_TrueEdge(Operand(V, 1), n + 1)
  ELSE Ok(V, n)

RECURSIVE stripSinglePredecessorArgsRun(_, _)
stripSinglePredecessorArgsRun(V, n) ==
  IF Revisits(n) THEN Diverged(V, n)
  ELSE IF ~isSILArgument(V) THEN Ok(V, n)
  ELSE IF ~hasSinglePredecessorBlock(V) THEN Ok(V, n)
  ELSE IF ir[V].term = "BranchInst"
    THEN stripSinglePredecessorArgsRun(Operand(V, 1), n + 1)
  ELSE IF ir[V].term = "CondBranchInst" /\ getArgForDestBB(V) # NoValue
    THEN stripSinglePredecessorArgsRun(getArgForDestBB(V), n + 1)
  ELSE Ok(V, n)

\* stripCastsWithoutMarkDependence looking through mark_dependence.
RECURSIVE stripCastsWithoutMarkDependenceRun_ThroughMarkDependence(_, _)
stripCastsWithoutMarkDependenceRun_ThroughMarkDependence(V, n) ==
  LET a == stripSinglePredecessorArgsRun(V, n) IN
  IF a.st # "ok" THEN a
  ELSE IF isRCIdentityPreservingCast(Kind(a.v))
          \/ Kind(a.v) = "UncheckedTrivialBitCastInst"
          \/ Kind(a.v) = "MarkDependenceInst"
    THEN stripCastsWithoutMarkDependenceRun_ThroughMarkDependence(Operand(a.v, 1), a.n + 1)
  ELSE a

RECURSIVE stripCastsWithoutMarkDependenceRun(_, _)
stripCastsWithoutMarkDependenceRun(V, n) ==
  LET a == stripSinglePredecessorArgsRun(V, n) IN
  IF a.st # "ok" THEN a
  ELSE IF isRCIdentityPreservingCast(Kind(a.v))
          \/ Kind(a.v) = "UncheckedTrivialBitCastInst"
    THEN stripCastsWithoutMarkDependenceRun(Operand(a.v, 1), a.n + 1)
  ELSE a

\* stripCasts stopping at a mark_dependence.
RECURSIVE stripCastsRun_NoMarkDependence(_, _)
stripCastsRun_NoMarkDependence(V, n) ==
  LET a == stripSinglePredecessorArgsRun(V, n) IN
  IF a.st # "ok" THEN a
  ELSE IF isRCIdentityPreservingCast(Kind(a.v))
          \/ Kind(a.v) = "UncheckedTrivialBitCastInst"
    THEN stripCastsRun_NoMarkDependence(Operand(a.v, 1), a.n + 1)
  ELSE a

RECURSIVE stripCastsRun(_, _)
stripCastsRun(V, n) ==
  LET a == stripSinglePredecessorArgsRun(V, n) IN
  IF a.st # "ok" THEN a
  ELSE IF isRCIdentityPreservingCast(Kind(a.v))
          \/ Kind(a.v) = "UncheckedTrivialBitCastInst"
          \/ Kind(a.v) = "MarkDependenceInst"
    THEN stripCastsRun(Operand(a.v, 1), a.n + 1)
  ELSE a

\* SILType::isClassOrClassMetatype
isClassOrClassMetatype(V) == ir[V].ty = "Class"

\* The loop of stripUpCasts looking through unchecked_ref_cast as well.
RECURSIVE stripUpCastsLoop_RefCasts(_)
stripUpCastsLoop_RefCasts(a) ==
  IF a.st # "ok" THEN a
  ELSE IF Kind(a.v) \in {"UpcastInst", "UncheckedRefCastInst"}
    THEN stripUpCastsLoop_RefCasts(
           stripSinglePredecessorArgsRun(Operand(a.v, 1), a.n + 1))
  ELSE a

RECURSIVE stripUpCastsLoop(_)
stripUpCastsLoop(a) ==
  IF a.st # "ok" THEN a
  ELSE IF Kind(a.v) = "UpcastInst"
    THEN stripUpCastsLoop(stripSinglePredecessorArgsRun(Operand(a.v, 1), a.n + 1))
  ELSE a

stripUpCastsRun(V, n) ==
  IF ~isClassOrClassMetatype(V) THEN AssertFails(V, n)
  ELSE stripUpCastsLoop(stripSinglePredecessorArgsRun(V, n))

RECURSIVE stripClassCastsRun(_, _)
stripClassCastsRun(V, n) ==
  IF Revisits(n) THEN Diverged(V, n)
  ELSE IF Kind(V) = "UpcastInst" THEN stripClassCastsRun(Operand(V, 1), n + 1)
  ELSE IF Kind(V) = "UnconditionalCheckedCastInst"
    THEN stripClassCastsRun(Operand(V, 1), n + 1)
  ELSE Ok(V, n)

RECURSIVE stripAddressProjectionsRun(_, _)
stripAddressProjectionsRun(V, n) ==
  LET a == stripSinglePredecessorArgsRun(V, n) IN
  IF a.st # "ok" THEN a
  ELSE IF ~isAddressProjection(a.v) THEN a
  ELSE stripAddressProjectionsRun(Operand(a.v, 1), a.n + 1)

RECURSIVE stripUnaryAddressProjectionsRun(_, _)
stripUnaryAddressProjectionsRun(V, n) ==
  LET a == stripSinglePredecessorArgsRun(V, n) IN
  IF a.st # "ok" THEN a
  ELSE IF ~isAddressProjection(a.v) THEN a
  ELSE IF NumOperands(a.v) > 1 THEN a
  ELSE stripUnaryAddressProjectionsRun(Operand(a.v, 1), a.n + 1)

RECURSIVE stripValueProjectionsRun(_, _)
stripValueProjectionsRun(V, n) ==
  LET a == stripSinglePredecessorArgsRun(V, n) IN
  IF a.st # "ok" THEN a
  ELSE IF ~isObjectProjection(a.v) THEN a
  ELSE stripValueProjectionsRun(Operand(a.v, 1), a.n + 1)

\* IndexingInst::getBase
getBase(V) == Operand(V, 1)

\* stripIndexingInsts with an if for its loop: one indexing instruction is
\* stripped.
stripIndexingInstsRun_OneLayer(V, n) ==
  IF ~isIndexingInst(V) THEN Ok(V, n) ELSE Ok(getBase(V), n + 1)

\* stripIndexingInsts that never replaces V by its base.
RECURSIVE stripIndexingInstsRun_NoAdvance(_, _)
stripIndexingInstsRun_NoAdvance(V, n) ==
  IF Revisits(n) THEN Diverged(V, n)
  ELSE IF ~isIndexingInst(V) THEN Ok(V, n)
  ELSE stripIndexingInstsRun_NoAdvance(V, n + 1)

RECURSIVE stripIndexingInstsRun(_, _)
stripIndexingInstsRun(V, n) ==
  IF Revisits(n) THEN Diverged(V, n)
  ELSE IF ~isIndexingInst(V) THEN Ok(V, n)
  ELSE stripIndexingInstsRun(getBase(V), n + 1)

stripExpectIntrinsicRun(V, n) ==
  IF Kind(V) # "BuiltinInst" THEN Ok(V, n)
  ELSE IF ir[V].attr # "expect" THEN Ok(V, n)
  ELSE Ok(Operand(V, 1), n + 1)

stripBorrowRun(V, n) ==
  IF Kind(V) = "BeginBorrowInst" THEN Ok(Operand(V, 1), n + 1) ELSE Ok(V, n)

RECURSIVE stripConvertFunctionsRun(_, _)
stripConvertFunctionsRun(V, n) ==
  IF Revisits(n) THEN Diverged(V, n)
  ELSE IF Kind(V) # "ConvertFunctionInst" THEN Ok(V, n)
  ELSE stripConvertFunctionsRun(Operand(V, 1), n + 1)

\* getUnderlyingObject without its loop: casts, projections and indexing are
\* stripped once, in that order.
getUnderlyingObjectRun_OnePass(V, n) ==
  LET c == stripCastsRun(V, n)
      p == stripAddressProjectionsRun(c.v, c.n)
      i == stripIndexingInstsRun(p.v, p.n)
  IN IF c.st # "ok" THEN c
     ELSE IF p.st # "ok" THEN p
     ELSE i

RECURSIVE getUnderlyingObjectRun(_, _)
getUnderlyingObjectRun(V, n) ==
  LET c == stripCastsRun(V, n)
      p == stripAddressProjectionsRun(c.v, c.n)
      i == stripIndexingInstsRun(p.v, p.n)
  IN IF c.st # "ok" THEN c
     ELSE IF p.st # "ok" THEN p
     ELSE IF i.st # "ok" THEN i
     ELSE IF i.v = V THEN i
     ELSE getUnderlyingObjectRun(i.v, i.n)

\* getUnderlyingAddressRoot looking through ref_element_addr.
RECURSIVE getUnderlyingAddressRootRun_ThroughRefElement(_, _)
getUnderlyingAddressRootRun_ThroughRefElement(V, n) ==
  LET c == stripCastsRun(V, n)
      i == stripIndexingInstsRun(c.v, c.n)
      V2 == IF Kind(i.v) \in {"StructElementAddrInst", "TupleElementAddrInst",
                              "UncheckedTakeEnumDataAddrInst", "RefElementAddrInst"}
            THEN Ok(Operand(i.v, 1), i.n + 1)
            ELSE i
  IN IF c.st # "ok" THEN c
     ELSE IF i.st # "ok" THEN i
     ELSE IF V2.v = V THEN V2
     ELSE getUnderlyingAddressRootRun_ThroughRefElement(V2.v, V2.n)

RECURSIVE getUnderlyingAddressRootRun(_, _)
getUnderlyingAddressRootRun(V, n) ==
  LET c == stripCastsRun(V, n)
      i == stripIndexingInstsRun(c.v, c.n)
      V2 == IF Kind(i.v) \in {"StructElementAddrInst", "TupleElementAddrInst",
                              "UncheckedTakeEnumDataAddrInst"}
            THEN Ok(Operand(i.v, 1), i.n + 1)
            ELSE i
  IN IF c.st # "ok" THEN c
     ELSE IF i.st # "ok" THEN i
     ELSE IF V2.v = V THEN V2
     ELSE getUnderlyingAddressRootRun(V2.v, V2.n)

RECURSIVE getUnderlyingObjectStopAtMarkDependenceRun(_, _)
getUnderlyingObjectStopAtMarkDependenceRun(V, n) ==
  LET c == stripCastsWithoutMarkDependenceRun(V, n)
      p == stripAddressProjectionsRun(c.v, c.n)
      i == stripIndexingInstsRun(p.v, p.n)
  IN IF c.st # "ok" THEN c
     ELSE IF p.st # "ok" THEN p
     ELSE IF i.st # "ok" THEN i
     ELSE IF i.v = V THEN i
     ELSE getUnderlyingObjectStopAtMarkDependenceRun(i.v, i.n)

\* SILType::isAddress
isAddress(V) == ir[V].ty \in {"Address", "ValueBufferAddress"}

\* The kinds findAccessedAddressBase returns as they are.
AccessBaseKinds ==
  {"GlobalAddrInst", "RefElementAddrInst", "AllocBoxInst", "AllocStackInst",
   "BeginAccessInst", "SILFunctionArgument", "PointerToAddressInst"}

\* The kinds findAccessedAddressBase looks through: address casts, value
\* propagation and box projection in the first set, subobject projections in
\* the second.
AccessInductiveKinds ==
  {"MarkUninitializedInst", "OpenExistentialAddrInst", "UncheckedAddrCastInst",
   "CopyValueInst", "MarkDependenceInst", "ProjectBoxInst",
   "ProjectBlockStorageInst", "BeginBorrowInst"}

\* The subobject projections without unchecked_take_enum_data_addr.
AccessSubobjectKinds_NoEnumData ==
  {"StructElementAddrInst", "TupleElementAddrInst", "RefTailAddrInst",
   "TailAddrInst", "IndexAddrInst"}

AccessSubobjectKinds ==
  {"StructElementAddrInst", "TupleElementAddrInst", "UncheckedTakeEnumDataAddrInst",
   "RefTailAddrInst", "TailAddrInst", "IndexAddrInst"}

\* The value to address conversions without project_value_buffer.
AccessValueToAddressKinds_NoValueBuffer ==
  {"OpenExistentialBoxInst", "ProjectExistentialBoxInst"}

\* Value to address conversions.
AccessValueToAddressKinds ==
  {"OpenExistentialBoxInst", "ProjectExistentialBoxInst", "ProjectValueBufferInst"}

\* Local initialization.
AccessLocalInitKinds ==
  {"InitEnumDataAddrInst", "InitExistentialAddrInst", "AllocExistentialBoxInst",
   "AllocValueBufferInst", "SILUndef"}

\* findAccessedAddressBase looking through begin_access.
RECURSIVE findAccessedAddressBaseRun_ThroughBeginAccess(_, _)
findAccessedAddressBaseRun_ThroughBeginAccess(address, n) ==
  IF Revisits(n) THEN Diverged(address, n)
  ELSE IF Kind(address) \in AccessBaseKinds \ {"BeginAccessInst"} THEN Ok(address, n)
  ELSE IF Kind(address) = "SILPHIArgument" THEN
    IF isAddress(address) THEN AssertFails(address, n)
    ELSE IF ~hasSinglePredecessorBlock(address) \/ ir[address].term # "SwitchEnumInst"
      THEN Unreachable(address, n)
    ELSE Ok(address, n)
  ELSE IF Kind(address) \in AccessInductiveKinds \cup {"BeginAccessInst"}
    THEN findAccessedAddressBaseRun_ThroughBeginAccess(Operand(address, 1), n + 1)
  ELSE IF Kind(address) \in AccessSubobjectKinds
    THEN findAccessedAddressBaseRun_ThroughBeginAccess(Operand(address, 1), n + 1)
  ELSE IF Kind(address) \in AccessValueToAddressKinds THEN Ok(NoValue, n)
  ELSE IF Kind(address) \in AccessLocalInitKinds THEN Ok(NoValue, n)
  ELSE Unreachable(address, n)

RECURSIVE findAccessedAddressBaseRun(_, _)
findAccessedAddressBaseRun(address, n) ==
  IF Revisits(n) THEN Diverged(address, n)
  ELSE IF Kind(address) \in AccessBaseKinds THEN Ok(address, n)
  ELSE IF Kind(address) = "SILPHIArgument" THEN
    IF isAddress(address) THEN AssertFails(address, n)
    ELSE IF ~hasSinglePredecessorBlock(address) \/ ir[address].term # "SwitchEnumInst"
      THEN Unreachable(address, n)
    ELSE Ok(address, n)
  ELSE IF Kind(address) \in AccessInductiveKinds
    THEN findAccessedAddressBaseRun(Operand(address, 1), n + 1)
  ELSE IF Kind(address) \in AccessSubobjectKinds
    THEN findAccessedAddressBaseRun(Operand(address, 1), n + 1)
  ELSE IF Kind(address) \in AccessValueToAddressKinds THEN Ok(NoValue, n)
  ELSE IF Kind(address) \in AccessLocalInitKinds THEN Ok(NoValue, n)
  ELSE Unreachable(address, n)

\* isLetAccess without the case of alloc_box.
isLetAccess_NoAllocBox(address) ==
  CASE Kind(address) = "AllocStackInst" -> ir[address].attr = "let"
    [] Kind(address) = "GlobalAddrInst" -> ir[address].attr = "let"
    [] OTHER -> FALSE

\* isLetAccess: attr tells whether the allocation has a declaration, or the
\* address a referenced global, and whether that is a let.
isLetAccess(address) ==
  CASE Kind(address) = "AllocStackInst" -> ir[address].attr = "let"
    [] Kind(address) = "AllocBoxInst" -> ir[address].attr = "let"
    [] Kind(address) = "GlobalAddrInst" -> ir[address].attr = "let"
    [] OTHER -> FALSE

isPossibleFormalAccessBase(baseAddress) ==
  IF Kind(baseAddress) = "SILFunctionArgument" THEN FALSE
  ELSE IF Kind(baseAddress) = "PointerToAddressInst" THEN FALSE
  ELSE IF isLetAccess(baseAddress) THEN FALSE
  ELSE IF ir[baseAddress].ty = "ValueBufferAddress" THEN FALSE
  ELSE TRUE

\* PartialApplyInst: operand 1 is the callee, argument 0 is operand 2.
getNumArguments(PAI) == NumOperands(PAI) - 1

getArgument(PAI, i) == Operand(PAI, i + 2)

\* SILFunction::isThunk of PartialApplyInst::getReferencedFunction: the callee
\* is a function_ref, and attr is the thunk kind of the function it names;
\* "none" when the callee is no function_ref.
isThunk(PAI) ==
  IF Kind(Operand(PAI, 1)) = "FunctionRefInst" THEN ir[Operand(PAI, 1)].attr
  ELSE "none"

\* SILType::is<SILFunctionType>
isSILFunctionType(V) == ir[V].ty \in {"Function", "ThinFunction", "Block"}

\* SILType::isReferenceCounted: thick functions and blocks are, thin
\* functions are not.
isReferenceCounted(V) == ir[V].ty \in {"Function", "Block", "Class", "Box"}

\* SILType::getOptionalObjectType is not null.
hasOptionalObjectType(V) == ir[V].ty \in {"OptionalFunction", "OptionalBlock"}

isPartialApplyOfReabstractionThunk(PAI) ==
  IF getNumArguments(PAI) # 1 THEN NoValue
  ELSE IF isThunk(PAI) = "none" THEN NoValue
  ELSE IF isThunk(PAI) # "IsReabstractionThunk" THEN NoValue
  ELSE IF ~isSILFunctionType(getArgument(PAI, 0))
          \/ ~isReferenceCounted(getArgument(PAI, 0)) THEN NoValue
  ELSE getArgument(PAI, 0)

\* ValueBase::getSingleUserOfType: the user of kind K when V has one use by
\* an instruction of that kind, none otherwise.
getSingleUserOfType(V, K) ==
  LET uses == UNION {{<<u, i>> : i \in {j \in 1..NumOperands(u) : Operand(u, j) = V}} :
                       u \in {w \in 1..Len(ir) : Kind(w) = K}}
  IN IF Cardinality(uses) = 1 THEN (CHOOSE u \in uses : TRUE)[1] ELSE NoValue

\* The block copies of findClosureStoredIntoBlock.
RECURSIVE stripCopyBlocksRun(_, _)
stripCopyBlocksRun(V, n) ==
  IF Revisits(n) THEN Diverged(V, n)
  ELSE IF Kind(V) = "CopyBlockInst" THEN stripCopyBlocksRun(Operand(V, 1), n + 1)
  ELSE Ok(V, n)

findClosureStoredIntoBlockRun(V, n) ==
  LET b == stripCopyBlocksRun(V, n)
      BlockStorage == Operand(b.v, 1)
      PBSI == getSingleUserOfType(BlockStorage, "ProjectBlockStorageInst")
      SI == getSingleUserOfType(PBSI, "StoreInst")
  IN IF b.st # "ok" THEN b
     ELSE IF Kind(b.v) # "InitBlockStorageHeaderInst" THEN Ok(NoValue, b.n)
     ELSE IF PBSI = NoValue THEN AssertFails(b.v, b.n)
     ELSE IF SI = NoValue THEN AssertFails(PBSI, b.n)
     ELSE Ok(Operand(SI, 1), b.n + 1)

\* FindClosureResult(PAI, isReabstructed)
FindClosureResult(PAI, viaThunk, n) ==
  [st |-> "ok", v |-> PAI, thunk |-> viaThunk, n |-> n]

\* A call that did not return.
NoResult(a) == [st |-> a.st, v |-> a.v, thunk |-> FALSE, n |-> a.n]

\* findClosureForAppliedArg handing on the flag of the recursive result.
RECURSIVE findClosureForAppliedArgRun_FlagOfInner(_, _)
findClosureForAppliedArgRun_FlagOfInner(V0, n) ==
  LET V1 == IF Kind(V0) = "BeginBorrowInst" THEN Operand(V0, 1) ELSE V0
      V2 == IF hasOptionalObjectType(V1) THEN Operand(V1, 1) ELSE V1
      b == IF ir[V2].ty = "Block" THEN findClosureStoredIntoBlockRun(V2, n)
           ELSE Ok(V2, n)
      c == stripConvertFunctionsRun(b.v, b.n)
      thunkArg == isPartialApplyOfReabstractionThunk(c.v)
  IN IF Revisits(n) THEN NoResult(Diverged(V0, n))
     ELSE IF hasOptionalObjectType(V1)
             /\ (Kind(V1) # "EnumInst" \/ NumOperands(V1) = 0)
       THEN NoResult(AssertFails(V1, n))
     ELSE IF ~isSILFunctionType(V2) THEN NoResult([st |-> "nullderef", v |-> V2, n |-> n])
     ELSE IF b.st # "ok" THEN NoResult(b)
     ELSE IF b.v = NoValue THEN FindClosureResult(NoValue, FALSE, b.n)
     ELSE IF c.st # "ok" THEN NoResult(c)
     ELSE IF Kind(c.v) # "PartialApplyInst" THEN FindClosureResult(NoValue, FALSE, c.n)
     ELSE IF thunkArg # NoValue
       THEN findClosureForAppliedArgRun_FlagOfInner(thunkArg, c.n + 1)
     ELSE FindClosureResult(c.v, FALSE, c.n)

\* findClosureForAppliedArg with the flag set only when a closure was found
\* under the thunk.
RECURSIVE findClosureForAppliedArgRun_FlagOfFound(_, _)
findClosureForAppliedArgRun_FlagOfFound(V0, n) ==
  LET V1 == IF Kind(V0) = "BeginBorrowInst" THEN Operand(V0, 1) ELSE V0
      V2 == IF hasOptionalObjectType(V1) THEN Operand(V1, 1) ELSE V1
      b == IF ir[V2].ty = "Block" THEN findClosureStoredIntoBlockRun(V2, n)
           ELSE Ok(V2, n)
      c == stripConvertFunctionsRun(b.v, b.n)
      thunkArg == isPartialApplyOfReabstractionThunk(c.v)
      result == findClosureForAppliedArgRun_FlagOfFound(thunkArg, c.n + 1)
  IN IF Revisits(n) THEN NoResult(Diverged(V0, n))
     ELSE IF hasOptionalObjectType(V1)
             /\ (Kind(V1) # "EnumInst" \/ NumOperands(V1) = 0)
       THEN NoResult(AssertFails(V1, n))
     ELSE IF ~isSILFunctionType(V2) THEN NoResult([st |-> "nullderef", v |-> V2, n |-> n])
     ELSE IF b.st # "ok" THEN NoResult(b)
     ELSE IF b.v = NoValue THEN FindClosureResult(NoValue, FALSE, b.n)
     ELSE IF c.st # "ok" THEN NoResult(c)
     ELSE IF Kind(c.v) # "PartialApplyInst" THEN FindClosureResult(NoValue, FALSE, c.n)
     ELSE IF thunkArg # NoValue
       THEN IF result.st # "ok" THEN result
            ELSE FindClosureResult(result.v, result.v # NoValue, result.n)
     ELSE FindClosureResult(c.v, FALSE, c.n)

RECURSIVE findClosureForAppliedArgRun(_, _)
findClosureForAppliedArgRun(V0, n) ==
  LET V1 == IF Kind(V0) = "BeginBorrowInst" THEN Operand(V0, 1) ELSE V0
      V2 == IF hasOptionalObjectType(V1) THEN Operand(V1, 1) ELSE V1
      b == IF ir[V2].ty = "Block" THEN findClosureStoredIntoBlockRun(V2, n)
           ELSE Ok(V2, n)
      c == stripConvertFunctionsRun(b.v, b.n)
      thunkArg == isPartialApplyOfReabstractionThunk(c.v)
      result == findClosureForAppliedArgRun(thunkArg, c.n + 1)
  IN IF Revisits(n) THEN NoResult(Diverged(V0, n))
     ELSE IF hasOptionalObjectType(V1)
             /\ (Kind(V1) # "EnumInst" \/ NumOperands(V1) = 0)
       THEN NoResult(AssertFails(V1, n))
     ELSE IF ~isSILFunctionType(V2) THEN NoResult([st |-> "nullderef", v |-> V2, n |-> n])
     ELSE IF b.st # "ok" THEN NoResult(b)
     ELSE IF b.v = NoValue THEN FindClosureResult(NoValue, FALSE, b.n)
     ELSE IF c.st # "ok" THEN NoResult(c)
     ELSE IF Kind(c.v) # "PartialApplyInst" THEN FindClosureResult(NoValue, FALSE, c.n)
     ELSE IF thunkArg # NoValue
       THEN IF result.st # "ok" THEN result
            ELSE FindClosureResult(result.v, TRUE, result.n)
     ELSE FindClosureResult(c.v, FALSE, c.n)

\* llvm_unreachable and a failed assert stop the program in a build with
\* assertions.  In a build without them llvm_unreachable is undefined
\* behaviour, and the switch may as well return any value or none; a failed
\* assert of line 343 is passed over and lines 344-351 run.
findAccessedAddressBaseOutcomes(sourceAddr) ==
  LET r == findAccessedAddressBaseRun(sourceAddr, 0)
      undefined == {Ok(V, r.n) : V \in 0..Len(ir)}
  IN {r} \cup
     (CASE r.st = "unreachable" -> undefined
        [] r.st = "assert" ->
             IF hasSinglePredecessorBlock(r.v) /\ ir[r.v].term = "SwitchEnumInst"
               THEN {Ok(r.v, r.n)}
             ELSE undefined
        [] OTHER -> {})

\* A failed assert (lines 479, 482, the cast of line 498) stops the program
\* in a build with assertions.  In a build without them the null pointer is
\* used, as the null function type of line 501 is in every build: undefined
\* behaviour, which may end in a fault or in the return of any result.
findClosureForAppliedArgOutcomes(V) ==
  LET r == findClosureForAppliedArgRun(V, 0) IN
  IF r.st \in {"assert", "nullderef"}
    THEN {r, [r EXCEPT !.st = "nullderef"]}
           \cup {FindClosureResult(PAI, viaThunk, r.n) :
                   PAI \in 0..Len(ir), viaThunk \in BOOLEAN}
  ELSE {r}

\* The functions as their callers see them.
stripSinglePredecessorArgs(V) == stripSinglePredecessorArgsRun(V, 0)

stripCastsWithoutMarkDependence(V) == stripCastsWithoutMarkDependenceRun(V, 0)

stripCasts(V) == stripCastsRun(V, 0)

stripUpCasts(V) == stripUpCastsRun(V, 0)

stripClassCasts(V) == stripClassCastsRun(V, 0)

stripAddressProjections(V) == stripAddressProjectionsRun(V, 0)

stripUnaryAddressProjections(V) == stripUnaryAddressProjectionsRun(V, 0)

stripValueProjections(V) == stripValueProjectionsRun(V, 0)

stripIndexingInsts(V) == stripIndexingInstsRun(V, 0)

stripExpectIntrinsic(V) == stripExpectIntrinsicRun(V, 0)

stripBorrow(V) == stripBorrowRun(V, 0)

stripConvertFunctions(V) == stripConvertFunctionsRun(V, 0)

getUnderlyingObject(V) == getUnderlyingObjectRun(V, 0)

getUnderlyingAddressRoot(V) == getUnderlyingAddressRootRun(V, 0)

getUnderlyingObjectStopAtMarkDependence(V) ==
  getUnderlyingObjectStopAtMarkDependenceRun(V, 0)

findAccessedAddressBase(sourceAddr) == findAccessedAddressBaseRun(sourceAddr, 0)

findClosureForAppliedArg(V) == findClosureForAppliedArgRun(V, 0)

(***************************************************************************)
(* The SIL value graphs the analyses are run on.  A graph is a chain: node *)
(* 1 is a value without operands, node i > 1 has node i - 1 as its first   *)
(* operand and, where its kind has a second operand, node 1 as that.  Each *)
(* node's kind fits the type of its operand.                               *)
(***************************************************************************)
Value(k, o, t, a) ==
  [kind |-> k, ops |-> o, ty |-> t, attr |-> a,
   preds |-> 0, term |-> "none", dest |-> "none"]

Argument(k, o, t, p, tm, d) ==
  [kind |-> k, ops |-> o, ty |-> t, attr |-> "none",
   preds |-> p, term |-> tm, dest |-> d]

\* Block arguments that a br or a cond_br of the single predecessor feeds
\* with the value below; address-type block arguments are not allowed.
ForwardingArguments(i, t) ==
  IF t \in {"Address", "ValueBufferAddress"} THEN {}
  ELSE {Argument("SILPHIArgument", <<i - 1>>, t, 1, "BranchInst", "none"),
        Argument("SILPHIArgument", <<i - 1, 1>>, t, 1, "CondBranchInst", "True"),
        Argument("SILPHIArgument", <<1, i - 1>>, t, 1, "CondBranchInst", "False")}

\* Block arguments that are not forwarded: of a block with two predecessors,
\* and the payload of a switch_enum or checked_cast_br of the single
\* predecessor.
OtherArguments(i, t) ==
  IF t \in {"Address", "ValueBufferAddress"} THEN {}
  ELSE {Argument("SILPHIArgument", <<i - 1, 1>>, t, 2, "BranchInst", "none"),
        Argument("SILPHIArgument", <<i - 1>>, t, 1, "SwitchEnumInst", "none")}
       \cup (IF t = "Class"
               THEN {Argument("SILPHIArgument", <<i - 1>>, t, 1,
                              "CheckedCastBranchInst", "none")}
             ELSE {})

StripLeaves ==
  {Value("AllocStackInst", <<>>, "Address", "var"),
   Value("AllocBoxInst", <<>>, "Box", "var"),
   Value("AllocRefInst", <<>>, "Class", "none"),
   Value("FunctionRefInst", <<>>, "Function", "none"),
   Argument("SILFunctionArgument", <<>>, "Class", 0, "none", "none"),
   Argument("SILFunctionArgument", <<>>, "Object", 0, "none", "none"),
   Argument("SILPHIArgument", <<>>, "Class", 2, "none", "none"),
   Argument("SILPHIArgument", <<>>, "Class", 1, "CheckedCastBranchInst", "none"),
   Argument("SILPHIArgument", <<>>, "Object", 1, "SwitchEnumInst", "none")}

\* The nodes that can stand at position i over an operand of type t.
StripWrappers(i, t) ==
  (CASE t = "Class" ->
          {Value("UpcastInst", <<i - 1>>, "Class", "none"),
           Value("UncheckedRefCastInst", <<i - 1>>, "Class", "none"),
           Value("UnconditionalCheckedCastInst", <<i - 1>>, "Class", "none"),
           Value("RefToBridgeObjectInst", <<i - 1, 1>>, "BridgeObject", "none"),
           Value("RefElementAddrInst", <<i - 1>>, "Address", "none"),
           Value("RefTailAddrInst", <<i - 1>>, "Address", "none")}
     [] t = "BridgeObject" ->
          {Value("BridgeObjectToRefInst", <<i - 1>>, "Class", "none")}
     [] t = "Object" ->
          {Value("UnconditionalCheckedCastValueInst", <<i - 1>>, "Object", "none"),
           Value("UncheckedTrivialBitCastInst", <<i - 1>>, "Object", "none"),
           Value("StructExtractInst", <<i - 1>>, "Object", "none"),
           Value("StructExtractInst", <<i - 1>>, "Class", "none"),
           Value("TupleExtractInst", <<i - 1>>, "Object", "none"),
           Value("UncheckedEnumDataInst", <<i - 1>>, "Object", "none"),
           Value("BuiltinInst", <<i - 1, 1>>, "Object", "expect"),
           Value("BuiltinInst", <<i - 1, 1>>, "Object", "other")}
     [] t = "Address" ->
          {Value("StructElementAddrInst", <<i - 1>>, "Address", "none"),
           Value("TupleElementAddrInst", <<i - 1>>, "Address", "none"),
           Value("UncheckedTakeEnumDataAddrInst", <<i - 1>>, "Address", "none"),
           Value("IndexAddrInst", <<i - 1, 1>>, "Address", "constIndex"),
           Value("IndexAddrInst", <<i - 1, 1>>, "Address", "varIndex"),
           Value("TailAddrInst", <<i - 1, 1>>, "Address", "none"),
           Value("LoadInst", <<i - 1>>, "Class", "none")}
     [] t = "Box" ->
          {Value("ProjectBoxInst", <<i - 1>>, "Address", "none")}
     [] t = "Function" ->
          {Value("ConvertFunctionInst", <<i - 1>>, "Function", "none")}
     [] OTHER -> {})
  \cup {Value("MarkDependenceInst", <<i - 1, 1>>, t, "none")}
  \cup (IF t \in {"Address", "ValueBufferAddress"} THEN {}
        ELSE {Value("BeginBorrowInst", <<i - 1>>, t, "none")})
  \cup ForwardingArguments(i, t)
  \cup OtherArguments(i, t)

\* The chains of exactly n nodes.
RECURSIVE StripGraphs(_)
StripGraphs(n) ==
  IF n = 1 THEN {<<l>> : l \in StripLeaves}
  ELSE UNION {{Append(g, w) : w \in StripWrappers(n, g[n - 1].ty)} :
                g \in StripGraphs(n - 1)}

\* The value an analysis is asked about: the top of the chain.  The chains
\* below it are graphs of their own.
Values == {Len(ir)}

\* The length of the longest path of operand edges from V.
RECURSIVE Depth(_)
Depth(V) ==
  IF NumOperands(V) = 0 THEN 0
  ELSE LET below == {Depth(Operand(V, i)) : i \in 1..NumOperands(V)}
       IN 1 + CHOOSE d \in below : \A e \in below : e <= d

Called(name, V, r) ==
  /\ call' = [fn |-> name, arg |-> V, res |-> r]
  /\ UNCHANGED <<hasQualifiedOwnership, HasOwnershipQualifiedInstruction, log, ir>>

CallStripSinglePredecessorArgs ==
  \E V \in Values :
    Called("stripSinglePredecessorArgs", V, stripSinglePredecessorArgs(V))

CallStripCastsWithoutMarkDependence ==
  \E V \in Values :
    Called("stripCastsWithoutMarkDependence", V, stripCastsWithoutMarkDependence(V))

CallStripCasts == \E V \in Values : Called("stripCasts", V, stripCasts(V))

CallStripUpCasts == \E V \in Values : Called("stripUpCasts", V, stripUpCasts(V))

CallStripClassCasts ==
  \E V \in Values : Called("stripClassCasts", V, stripClassCasts(V))

CallStripAddressProjections ==
  \E V \in Values : Called("stripAddressProjections", V, stripAddressProjections(V))

CallStripUnaryAddressProjections ==
  \E V \in Values :
    Called("stripUnaryAddressProjections", V, stripUnaryAddressProjections(V))

CallStripValueProjections ==
  \E V \in Values : Called("stripValueProjections", V, stripValueProjections(V))

CallStripIndexingInsts ==
  \E V \in Values : Called("stripIndexingInsts", V, stripIndexingInsts(V))

CallStripExpectIntrinsic ==
  \E V \in Values : Called("stripExpectIntrinsic", V, stripExpectIntrinsic(V))

CallStripBorrow == \E V \in Values : Called("stripBorrow", V, stripBorrow(V))

CallStripConvertFunctions ==
  \E V \in Values : Called("stripConvertFunctions", V, stripConvertFunctions(V))

CallGetUnderlyingObject ==
  \E V \in Values : Called("getUnderlyingObject", V, getUnderlyingObject(V))

CallGetUnderlyingAddressRoot ==
  \E V \in Values : Called("getUnderlyingAddressRoot", V, getUnderlyingAddressRoot(V))

CallGetUnderlyingObjectStopAtMarkDependence ==
  \E V \in Values :
    Called("getUnderlyingObjectStopAtMarkDependence", V,
           getUnderlyingObjectStopAtMarkDependence(V))

CallFindAccessedAddressBase ==
  \E V \in Values : \E r \in findAccessedAddressBaseOutcomes(V) :
    Called("findAccessedAddressBase", V, r)

InitStrip ==
  /\ InitOwnership
  /\ ir \in UNION {StripGraphs(n) : n \in 1..MaxNodes}
  /\ call = NoCall

NextStrip ==
  \/ CallStripSinglePredecessorArgs
  \/ CallStripCastsWithoutMarkDependence
  \/ CallStripCasts
  \/ CallStripUpCasts
  \/ CallStripClassCasts
  \/ CallStripAddressProjections
  \/ CallStripUnaryAddressProjections
  \/ CallStripValueProjections
  \/ CallStripIndexingInsts
  \/ CallStripExpectIntrinsic
  \/ CallStripBorrow
  \/ CallStripConvertFunctions
  \/ CallGetUnderlyingObject
  \/ CallGetUnderlyingAddressRoot
  \/ CallGetUnderlyingObjectStopAtMarkDependence
  \/ CallFindAccessedAddressBase

SpecStrip == InitStrip /\ [][NextStrip]_vars

(***************************************************************************)
(* Control flow with a cycle: a chain in which the terminator of the       *)
(* single predecessor of a block passes, in place of the value below the   *)
(* block argument, the argument itself or the value at the top of the      *)
(* chain, built on the argument.  The block                                *)
(* is then its own predecessor, or one of a cycle of blocks with a single  *)
(* predecessor each, none of them reachable from the entry block.          *)
(***************************************************************************)
IsForwarding(node) ==
  /\ node.kind = "SILPHIArgument"
  /\ node.preds = 1
  /\ node.term \in {"BranchInst", "CondBranchInst"}

\* The chain g with the predecessor of the block of argument i passing
\* value j.
BackEdge(g, i, j) ==
  [g EXCEPT ![i].ops = [k \in DOMAIN g[i].ops |->
                          IF g[i].ops[k] = i - 1 THEN j ELSE g[i].ops[k]]]

CycleGraphs(n) ==
  UNION {UNION {{BackEdge(g, i, j) : j \in {i, n}} :
                  i \in {k \in 2..n : IsForwarding(g[k])}} :
           g \in StripGraphs(n)}

InitCycle ==
  /\ InitOwnership
  /\ ir \in UNION {CycleGraphs(n) : n \in 2..MaxNodes}
  /\ call = NoCall

NextCycle ==
  \/ CallStripSinglePredecessorArgs
  \/ CallStripCastsWithoutMarkDependence
  \/ CallStripCasts
  \/ CallStripUpCasts
  \/ CallStripAddressProjections
  \/ CallStripUnaryAddressProjections
  \/ CallStripValueProjections
  \/ CallGetUnderlyingObject
  \/ CallGetUnderlyingAddressRoot
  \/ CallGetUnderlyingObjectStopAtMarkDependence

SpecCycle == InitCycle /\ [][NextCycle]_vars

(***************************************************************************)
(* The graphs findAccessedAddressBase is run on: chains as above, of the   *)
(* kinds an address can come from.                                         *)
(***************************************************************************)
AccessLeaves ==
  {Value("AllocStackInst", <<>>, "Address", a) : a \in {"let", "var", "nodecl"}}
  \cup {Value("AllocBoxInst", <<>>, "Box", a) : a \in {"let", "var", "nodecl"}}
  \cup {Value("GlobalAddrInst", <<>>, "Address", a) : a \in {"let", "var", "noglobal"}}
  \cup {Value("AllocStackInst", <<>>, "ValueBufferAddress", "var"),
        Value("AllocRefInst", <<>>, "Class", "none"),
        Value("ApplyInst", <<>>, "RawPointer", "none"),
        Value("AllocExistentialBoxInst", <<>>, "ExistentialBox", "none"),
        Value("SILUndef", <<>>, "Address", "none"),
        Argument("SILFunctionArgument", <<>>, "Address", 0, "none", "none"),
        Argument("SILFunctionArgument", <<>>, "Box", 0, "none", "none"),
        Argument("SILPHIArgument", <<>>, "Box", 1, "SwitchEnumInst", "none"),
        Argument("SILPHIArgument", <<>>, "Box", 2, "none", "none")}

AccessWrappers(i, t) ==
  CASE t = "Address" ->
         {Value("StructElementAddrInst", <<i - 1>>, "Address", "none"),
          Value("TupleElementAddrInst", <<i - 1>>, "Address", "none"),
          Value("UncheckedTakeEnumDataAddrInst", <<i - 1>>, "Address", "none"),
          Value("IndexAddrInst", <<i - 1, 1>>, "Address", "varIndex"),
          Value("TailAddrInst", <<i - 1, 1>>, "Address", "none"),
          Value("MarkUninitializedInst", <<i - 1>>, "Address", "none"),
          Value("OpenExistentialAddrInst", <<i - 1>>, "Address", "none"),
          Value("UncheckedAddrCastInst", <<i - 1>>, "Address", "none"),
          Value("UncheckedAddrCastInst", <<i - 1>>, "ValueBufferAddress", "none"),
          Value("MarkDependenceInst", <<i - 1, 1>>, "Address", "none"),
          Value("ProjectBlockStorageInst", <<i - 1>>, "Address", "none"),
          Value("BeginAccessInst", <<i - 1>>, "Address", "none"),
          Value("InitEnumDataAddrInst", <<i - 1>>, "Address", "none"),
          Value("InitExistentialAddrInst", <<i - 1>>, "Address", "none")}
    [] t = "ValueBufferAddress" ->
         {Value("ProjectValueBufferInst", <<i - 1>>, "Address", "none"),
          Value("AllocValueBufferInst", <<i - 1>>, "Address", "none"),
          Value("BeginAccessInst", <<i - 1>>, "ValueBufferAddress", "none")}
    [] t = "Class" ->
         {Value("RefElementAddrInst", <<i - 1>>, "Address", "none"),
          Value("RefElementAddrInst", <<i - 1>>, "ValueBufferAddress", "none"),
          Value("RefTailAddrInst", <<i - 1>>, "Address", "none")}
    [] t = "Box" ->
         {Value("ProjectBoxInst", <<i - 1>>, "Address", "none"),
          Value("CopyValueInst", <<i - 1>>, "Box", "none"),
          Value("BeginBorrowInst", <<i - 1>>, "Box", "none"),
          Value("MarkUninitializedInst", <<i - 1>>, "Box", "none"),
          Argument("SILPHIArgument", <<i - 1>>, "Box", 1, "BranchInst", "none")}
    [] t = "RawPointer" ->
         {Value("PointerToAddressInst", <<i - 1>>, "Address", "none"),
          Value("IndexRawPointerInst", <<i - 1, 1>>, "RawPointer", "none")}
    [] t = "ExistentialBox" ->
         {Value("ProjectExistentialBoxInst", <<i - 1>>, "Address", "none"),
          Value("OpenExistentialBoxInst", <<i - 1>>, "Address", "none")}
    [] OTHER -> {}

RECURSIVE AccessGraphs(_)
AccessGraphs(n) ==
  IF n = 1 THEN {<<l>> : l \in AccessLeaves}
  ELSE UNION {{Append(g, w) : w \in AccessWrappers(n, g[n - 1].ty)} :
                g \in AccessGraphs(n - 1)}

\* isPossibleFormalAccessBase is asked about a value that
\* findAccessedAddressBase has returned as a base.
CallIsPossibleFormalAccessBase ==
  \E V \in Values :
    /\ findAccessedAddressBase(V) = Ok(V, 0)
    /\ Called("isPossibleFormalAccessBase", V, isPossibleFormalAccessBase(V))

InitAccess ==
  /\ InitOwnership
  /\ ir \in UNION {AccessGraphs(n) : n \in 1..MaxAccessNodes}
  /\ call = NoCall

NextAccess ==
  \/ CallFindAccessedAddressBase
  \/ CallIsPossibleFormalAccessBase

SpecAccess == InitAccess /\ [][NextAccess]_vars

(***************************************************************************)
(* The graphs findClosureForAppliedArg is run on.  Nodes 1 to 5 are there  *)
(* in each: the function_refs of a closure body, of a reabstraction thunk  *)
(* and of a thunk of another kind, a closure passed in as a function       *)
(* argument and a value to capture.  On one of them values are built, each *)
(* on the one before; a block takes four instructions.  One block stores   *)
(* the reabstraction thunk applied to the block itself: the store follows  *)
(* the header and the partial_apply, and no operand leads back to its      *)
(* user.                                                                   *)
(***************************************************************************)
ClosurePool ==
  <<Value("FunctionRefInst", <<>>, "ThinFunction", "IsNotThunk"),
    Value("FunctionRefInst", <<>>, "ThinFunction", "IsReabstractionThunk"),
    Value("FunctionRefInst", <<>>, "ThinFunction", "IsThunk"),
    Argument("SILFunctionArgument", <<>>, "Function", 0, "none", "none"),
    Argument("SILFunctionArgument", <<>>, "Object", 0, "none", "none")>>

\* The instructions that can follow the graph g, built on its value b.
ClosureWrappers(g, b) ==
  LET i == Len(g) + 1
      t == g[b].ty
  IN CASE t = "Function" ->
            {<<Value("PartialApplyInst", <<c, b>>, "Function", "none")>> : c \in 1..4}
            \cup
            {<<Value("PartialApplyInst", <<2, b, 5>>, "Function", "none")>>,
             <<Value("ConvertFunctionInst", <<b>>, "Function", "none")>>,
             <<Value("BeginBorrowInst", <<b>>, "Function", "none")>>,
             <<Value("EnumInst", <<b>>, "OptionalFunction", "none")>>,
             <<Value("AllocStackInst", <<>>, "BlockStorage", "nodecl"),
               Value("ProjectBlockStorageInst", <<i>>, "Address", "none"),
               Value("StoreInst", <<b, i + 1>>, "None", "none"),
               Value("InitBlockStorageHeaderInst", <<i, 3>>, "Block", "none")>>,
             <<Value("AllocStackInst", <<>>, "BlockStorage", "nodecl"),
               Value("ProjectBlockStorageInst", <<i>>, "Address", "none"),
               Value("InitBlockStorageHeaderInst", <<i, 3>>, "Block", "none")>>,
             <<Value("AllocStackInst", <<>>, "BlockStorage", "nodecl"),
               Value("InitBlockStorageHeaderInst", <<i, 3>>, "Block", "none")>>,
             <<Value("AllocStackInst", <<>>, "BlockStorage", "nodecl"),
               Value("ProjectBlockStorageInst", <<i>>, "Address", "none"),
               Value("InitBlockStorageHeaderInst", <<i, 3>>, "Block", "none"),
               Value("PartialApplyInst", <<2, i + 2>>, "Function", "none"),
               Value("StoreInst", <<i + 3, i + 1>>, "None", "none"),
               Value("CopyBlockInst", <<i + 2>>, "Block", "none")>>}
       [] t = "Block" ->
            {<<Value("CopyBlockInst", <<b>>, "Block", "none")>>,
             <<Value("PartialApplyInst", <<2, b>>, "Function", "none")>>,
             <<Value("BeginBorrowInst", <<b>>, "Block", "none")>>,
             <<Value("EnumInst", <<b>>, "OptionalBlock", "none")>>}
       [] t \in {"OptionalFunction", "OptionalBlock"} ->
            {<<Value("BeginBorrowInst", <<b>>, t, "none")>>}
       [] t = "Object" ->
            {<<Value("PartialApplyInst", <<1, b>>, "Function", "none")>>,
             <<Value("PartialApplyInst", <<2, b>>, "Function", "none")>>}
       [] t = "ThinFunction" ->
            {<<Value("PartialApplyInst", <<2, b>>, "Function", "none")>>,
             <<Value("ThinToThickFunctionInst", <<b>>, "Function", "none")>>}
       [] OTHER -> {}

\* The graphs of k values built one on another.
RECURSIVE ClosureGraphs(_)
ClosureGraphs(k) ==
  IF k = 0 THEN {ClosurePool}
  ELSE UNION {UNION {{g \o w : w \in ClosureWrappers(g, b)} :
                       b \in (IF k = 1 THEN {1, 4, 5} ELSE {Len(g)})} :
                g \in ClosureGraphs(k - 1)}

CallFindClosureForAppliedArg ==
  \E V \in Values : \E r \in findClosureForAppliedArgOutcomes(V) :
    Called("findClosureForAppliedArg", V, r)

InitClosure ==
  /\ InitOwnership
  /\ ir \in UNION {ClosureGraphs(k) : k \in 0..MaxClosureSteps}
  /\ call = NoCall

NextClosure == CallFindClosureForAppliedArg

SpecClosure == InitClosure /\ [][NextClosure]_vars

(***************************************************************************)
(* The classification of instructions: OwnershipQualifiedKindVisitor on    *)
(* the instructions of a body.                                             *)
(***************************************************************************)
Bodies == UNION {[1..n -> Instructions] : n \in 1..MaxVisited}

Visit ==
  \E i \in 1..Len(ir) :
    Called("OwnershipQualifiedKindVisitor", i,
           [st |-> "ok", kind |-> OwnershipQualifiedKindVisitor(ir[i])])

InitVisit ==
  /\ InitOwnership
  /\ ir \in Bodies
  /\ call = NoCall

NextVisit == Visit

SpecVisit == InitVisit /\ [][NextVisit]_vars

(***************************************************************************)
(* Properties of the strippers.                                            *)
(***************************************************************************)

\* The function of the given name on V.
Apply(name, V) ==
  CASE name = "stripSinglePredecessorArgs" -> stripSinglePredecessorArgs(V)
    [] name = "stripCastsWithoutMarkDependence" -> stripCastsWithoutMarkDependence(V)
    [] name = "stripCasts" -> stripCasts(V)
    [] name = "stripUpCasts" -> stripUpCasts(V)
    [] name = "stripClassCasts" -> stripClassCasts(V)
    [] name = "stripAddressProjections" -> stripAddressProjections(V)
    [] name = "stripUnaryAddressProjections" -> stripUnaryAddressProjections(V)
    [] name = "stripValueProjections" -> stripValueProjections(V)
    [] name = "stripIndexingInsts" -> stripIndexingInsts(V)
    [] name = "stripExpectIntrinsic" -> stripExpectIntrinsic(V)
    [] name = "stripBorrow" -> stripBorrow(V)
    [] name = "stripConvertFunctions" -> stripConvertFunctions(V)
    [] name = "getUnderlyingObject" -> getUnderlyingObject(V)
    [] name = "getUnderlyingAddressRoot" -> getUnderlyingAddressRoot(V)
    [] name = "getUnderlyingObjectStopAtMarkDependence" ->
         getUnderlyingObjectStopAtMarkDependence(V)
    [] name = "findAccessedAddressBase" -> findAccessedAddressBase(V)

\* The strippers that loop until nothing is left to strip.
FixedPointStrippers ==
  {"stripCasts", "stripCastsWithoutMarkDependence", "getUnderlyingObject",
   "getUnderlyingObjectStopAtMarkDependence", "getUnderlyingAddressRoot",
   "stripUpCasts", "stripClassCasts", "stripAddressProjections",
   "stripUnaryAddressProjections", "stripValueProjections", "stripIndexingInsts",
   "stripConvertFunctions", "stripSinglePredecessorArgs"}

\* The strippers that look at the value once.
OneLayerStrippers == {"stripExpectIntrinsic", "stripBorrow"}

\* The last call returned, and the function called on what it returned
\* returns that again.
ReturnsItsResultAgain ==
  LET again == Apply(call.fn, call.res.v)
  IN again.st = "ok" /\ again.v = call.res.v

\* The kind one call of a one-layer stripper removes.
StripsKind(name, V) ==
  CASE name = "stripExpectIntrinsic" ->
         Kind(V) = "BuiltinInst" /\ ir[V].attr = "expect"
    [] name = "stripBorrow" -> Kind(V) = "BeginBorrowInst"

\* C5 as stated: every strip function f, stripExpectIntrinsic and
\* stripBorrow among them, has f(f(v)) = f(v) for every value v.
C5_EveryStripperIdempotent ==
  (call.fn \in FixedPointStrippers \cup OneLayerStrippers /\ call.res.st = "ok")
    => ReturnsItsResultAgain

\* C5, amended: the strippers that loop to a fixed point are idempotent;
\* stripExpectIntrinsic and stripBorrow remove one layer, and f(f(v)) = f(v)
\* holds of them exactly when f(v) is not again of the kind they remove.
C5_FixedPointStrippersIdempotent ==
  /\ (call.fn \in FixedPointStrippers /\ call.res.st = "ok")
       => ReturnsItsResultAgain
  /\ call.fn \in OneLayerStrippers =>
       /\ call.res.st = "ok"
       /\ ReturnsItsResultAgain <=> ~StripsKind(call.fn, call.res.v)

\* getUnderlyingObject has stripped two layers of different kinds.
C5_Witness ==
  /\ call.fn = "getUnderlyingObject"
  /\ call.res.st = "ok"
  /\ call.res.n = 2
  /\ isIndexingInst(call.arg)
  /\ ~isIndexingInst(Operand(call.arg, 1))

\* C6: on a finite acyclic value graph every strip function and every
\* root-finding function comes to an end, having followed no more operand
\* edges than the longest path below its input has.
C6_TerminatesWithinDepth ==
  call.fn # "none" =>
    /\ call.res.st \in {"ok", "assert", "unreachable"}
    /\ call.res.n <= Depth(call.arg)

\* A root finder walked a chain of the greatest depth to its end.
C6_Witness ==
  /\ call.fn \in {"getUnderlyingObject", "getUnderlyingAddressRoot",
                  "findAccessedAddressBase"}
  /\ call.res.st = "ok"
  /\ Depth(call.arg) = MaxNodes - 1
  /\ call.res.n = Depth(call.arg)

\* C7 as stated: getUnderlyingObject(v) is never an address projection, a
\* value projection or an indexing node.
C7_NoProjectionOfAnyKind ==
  (call.fn = "getUnderlyingObject" /\ call.res.st = "ok") =>
    /\ ~isAddressProjection(call.res.v)
    /\ ~isObjectProjection(call.res.v)
    /\ ~isIndexingInst(call.res.v)

\* C7, amended: getUnderlyingObject(v) is never an address projection or an
\* indexing node; it is a value projection whenever stripping the casts,
\* address projections and indexing of v ends at one.
C7_NoAddressProjectionOrIndexing ==
  (call.fn = "getUnderlyingObject" /\ call.res.st = "ok") =>
    /\ ~isAddressProjection(call.res.v)
    /\ ~isIndexingInst(call.res.v)

\* getUnderlyingObject was given an indexing instruction on an address
\* projection and stripped both.
C7_Witness ==
  /\ call.fn = "getUnderlyingObject"
  /\ call.res.st = "ok"
  /\ Kind(call.arg) = "IndexAddrInst" /\ ir[call.arg].attr = "varIndex"
  /\ isAddressProjection(Operand(call.arg, 1))
  /\ call.res.n = 2

\* The casts of C11: reference-identity casts, unchecked_trivial_bit_cast and
\* mark_dependence.
CastChainKinds ==
  {"UpcastInst", "UncheckedRefCastInst", "UnconditionalCheckedCastInst",
   "UnconditionalCheckedCastValueInst", "RefToBridgeObjectInst",
   "BridgeObjectToRefInst", "UncheckedTrivialBitCastInst", "MarkDependenceInst"}

\* V is the argument of a block whose one predecessor passes it by br or
\* cond_br.
IsForwardedArgument(V) ==
  /\ ir[V].kind = "SILPHIArgument"
  /\ ir[V].preds = 1
  /\ ir[V].term \in {"BranchInst", "CondBranchInst"}

\* The value under the casts of V, each followed through its first operand.
RECURSIVE CastChainBase(_)
CastChainBase(V) ==
  IF ir[V].kind \in CastChainKinds THEN CastChainBase(ir[V].ops[1]) ELSE V

\* The number of casts of V down to that value.
RECURSIVE CastChainLength(_)
CastChainLength(V) ==
  IF ir[V].kind \in CastChainKinds THEN 1 + CastChainLength(ir[V].ops[1]) ELSE 0

\* C11: when v is built by a chain of reference-identity casts,
\* unchecked_trivial_bit_cast and mark_dependence (through the first
\* operand) on a value v0 that is no cast and no block argument forwarded by
\* a single predecessor, stripCasts(v) = v0.
C11_StripCastsReachesBase ==
  (call.fn = "stripCasts" /\ ~IsForwardedArgument(CastChainBase(call.arg))) =>
    call.res.st = "ok" /\ call.res.v = CastChainBase(call.arg)

\* stripCasts went through two casts, a mark_dependence among them.
C11_Witness ==
  /\ call.fn = "stripCasts"
  /\ ~IsForwardedArgument(CastChainBase(call.arg))
  /\ CastChainLength(call.arg) >= 2
  /\ \E V \in 1..Len(ir) : ir[V].kind = "MarkDependenceInst"
  /\ call.res.v = CastChainBase(call.arg)

\* What the single predecessors pass for V, edge by edge: the operand of a
\* br, the operand of a cond_br on the edge to the argument's block.
RECURSIVE Forwarded(_)
Forwarded(V) ==
  IF ~IsForwardedArgument(V) THEN V
  ELSE IF ir[V].term = "BranchInst" THEN Forwarded(ir[V].ops[1])
  ELSE IF ir[V].dest = "True" THEN Forwarded(ir[V].ops[1])
  ELSE Forwarded(ir[V].ops[2])

\* C12: stripSinglePredecessorArgs of a block argument whose block has one
\* predecessor, ending in br, is what is forwarded for the operand of that
\* br; of a block argument whose block has two or more predecessors, or
\* none, it is the argument itself.
C12_BranchArgumentResolved ==
  (call.fn = "stripSinglePredecessorArgs" /\ isSILArgument(call.arg)) =>
    /\ (ir[call.arg].preds = 1 /\ ir[call.arg].term = "BranchInst") =>
         call.res.st = "ok" /\ call.res.v = Forwarded(ir[call.arg].ops[1])
    /\ ir[call.arg].preds # 1 => call.res.st = "ok" /\ call.res.v = call.arg

\* The argument of a block with one predecessor was resolved to the operand
\* of its br, an argument of a block with two predecessors, and that, fed by
\* a br of each, was not resolved further.
C12_Witness ==
  /\ call.fn = "stripSinglePredecessorArgs"
  /\ ir[call.arg].kind = "SILPHIArgument"
  /\ ir[call.arg].preds = 1
  /\ ir[call.arg].term = "BranchInst"
  /\ ir[ir[call.arg].ops[1]].kind = "SILPHIArgument"
  /\ ir[ir[call.arg].ops[1]].preds = 2
  /\ ir[ir[call.arg].ops[1]].ops # <<>>
  /\ call.res.v = ir[call.arg].ops[1]

\* C13: stripSinglePredecessorArgs of a block argument whose block has one
\* predecessor, ending in cond_br, is what is forwarded for the operand on
\* the edge to the argument's block, not the operand on the other edge; when
\* the predecessor ends in another terminator (checked_cast_br, switch_enum)
\* it is the argument itself.
C13_CondBranchEdgeSelected ==
  (/\ call.fn = "stripSinglePredecessorArgs"
   /\ ir[call.arg].kind = "SILPHIArgument"
   /\ ir[call.arg].preds = 1) =>
    /\ (ir[call.arg].term = "CondBranchInst" /\ ir[call.arg].dest = "True") =>
         call.res.st = "ok" /\ call.res.v = Forwarded(ir[call.arg].ops[1])
    /\ (ir[call.arg].term = "CondBranchInst" /\ ir[call.arg].dest = "False") =>
         call.res.st = "ok" /\ call.res.v = Forwarded(ir[call.arg].ops[2])
    /\ ir[call.arg].term \notin {"BranchInst", "CondBranchInst"} =>
         call.res.st = "ok" /\ call.res.v = call.arg

\* The argument of the false successor was resolved to the operand on the
\* false edge, which differs from what the true edge passes.
C13_Witness ==
  /\ call.fn = "stripSinglePredecessorArgs"
  /\ ir[call.arg].kind = "SILPHIArgument"
  /\ ir[call.arg].preds = 1
  /\ ir[call.arg].term = "CondBranchInst"
  /\ ir[call.arg].dest = "False"
  /\ call.res.v = Forwarded(ir[call.arg].ops[2])
  /\ call.res.v # Forwarded(ir[call.arg].ops[1])

\* The values a walk down the chain from V has looked through when it
\* returns r.
LookedThrough(V, r) == (r + 1)..V

\* C21: stripCastsWithoutMarkDependence and
\* getUnderlyingObjectStopAtMarkDependence look through no mark_dependence:
\* the one their walk reaches is their result, and stripCasts and
\* getUnderlyingObject go on from its first operand; when the walk reaches
\* none, the two of a pair return the same value.
C21_MarkDependenceIsOpaque ==
  (call.fn \in {"stripCastsWithoutMarkDependence",
                "getUnderlyingObjectStopAtMarkDependence"}) =>
    LET other == IF call.fn = "stripCastsWithoutMarkDependence"
                 THEN "stripCasts" ELSE "getUnderlyingObject"
        r == call.res.v
    IN /\ call.res.st = "ok"
       /\ \A W \in LookedThrough(call.arg, r) : ir[W].kind # "MarkDependenceInst"
       /\ Apply(other, call.arg).st = "ok"
       /\ ir[Apply(other, call.arg).v].kind # "MarkDependenceInst"
       /\ IF ir[r].kind = "MarkDependenceInst"
          THEN Apply(other, call.arg) .v = Apply(other, ir[r].ops[1]).v
          ELSE Apply(other, call.arg).v = r

\* getUnderlyingObjectStopAtMarkDependence stopped at a mark_dependence under
\* a projection, and getUnderlyingObject went on below it.
C21_Witness ==
  /\ call.fn = "getUnderlyingObjectStopAtMarkDependence"
  /\ ir[call.res.v].kind = "MarkDependenceInst"
  /\ call.res.v # call.arg
  /\ getUnderlyingObject(call.arg).v < call.res.v

\* The address projections getUnderlyingAddressRoot looks through.
RootProjectionKinds ==
  {"StructElementAddrInst", "TupleElementAddrInst", "UncheckedTakeEnumDataAddrInst"}

\* C22: getUnderlyingAddressRoot looks through no ref_element_addr, which
\* is returned as the root when the walk reaches it; its result is no
\* struct, tuple or enum-payload address projection, no cast that stripCasts
\* strips and no indexing instruction.
C22_ClassFieldIsRoot ==
  call.fn = "getUnderlyingAddressRoot" =>
    /\ call.res.st = "ok"
    /\ \A W \in LookedThrough(call.arg, call.res.v) :
         ir[W].kind # "RefElementAddrInst"
    /\ ir[call.res.v].kind \notin RootProjectionKinds \cup CastChainKinds
    /\ ~isIndexingInst(call.res.v)

\* A ref_element_addr under a projection was returned as the root.
C22_Witness ==
  /\ call.fn = "getUnderlyingAddressRoot"
  /\ ir[call.res.v].kind = "RefElementAddrInst"
  /\ ir[call.arg].kind \in RootProjectionKinds
  /\ call.res.st = "ok"

\* C23: stripUpCasts of a class value looks through upcasts and block
\* arguments forwarded by a single predecessor, and through nothing else:
\* it returns the first value that is neither, another cast or the argument
\* of a checked_cast_br successor among them.  On a value that is no class
\* or class metatype its assert fails.
C23_StripUpCastsOnlyUpcasts ==
  call.fn = "stripUpCasts" =>
    IF ir[call.arg].ty = "Class"
    THEN /\ call.res.st = "ok"
         /\ \A W \in LookedThrough(call.arg, call.res.v) :
              ir[W].kind = "UpcastInst" \/ IsForwardedArgument(W)
         /\ ir[call.res.v].kind # "UpcastInst"
         /\ ~IsForwardedArgument(call.res.v)
    ELSE call.res.st = "assert"

\* stripUpCasts stopped at the argument of a checked_cast_br successor under
\* an upcast.
C23_Witness ==
  /\ call.fn = "stripUpCasts"
  /\ ir[call.arg].kind = "UpcastInst"
  /\ call.res.st = "ok"
  /\ call.res.v # call.arg
  /\ ir[call.res.v].kind = "SILPHIArgument"
  /\ ir[call.res.v].term = "CheckedCastBranchInst"
  /\ ir[call.res.v].ops # <<>>

\* The strippers that call stripSinglePredecessorArgs, and the functions
\* built on them.
ArgumentStrippers ==
  {"stripSinglePredecessorArgs", "stripCastsWithoutMarkDependence", "stripCasts",
   "stripUpCasts", "stripAddressProjections", "stripUnaryAddressProjections",
   "stripValueProjections", "getUnderlyingObject", "getUnderlyingAddressRoot",
   "getUnderlyingObjectStopAtMarkDependence"}

\* C28: stripSinglePredecessorArgs and the strippers that call it return on
\* every control-flow graph, one in which a block is its own single
\* predecessor, or single-predecessor blocks forward an argument round a
\* cycle, among them.
C28_TerminatesOnCycles ==
  call.fn \in ArgumentStrippers => call.res.st # "diverged"

\* C29: what getUnderlyingObject returns is returned again by stripCasts,
\* by stripAddressProjections and by stripIndexingInsts, each on its own;
\* what getUnderlyingObjectStopAtMarkDependence returns, by
\* stripCastsWithoutMarkDependence and the same two.
C29_FixedPointOfEachStripper ==
  /\ call.fn = "getUnderlyingObject" =>
       /\ call.res.st = "ok"
       /\ stripCasts(call.res.v) = Ok(call.res.v, 0)
       /\ stripAddressProjections(call.res.v) = Ok(call.res.v, 0)
       /\ stripIndexingInsts(call.res.v) = Ok(call.res.v, 0)
  /\ call.fn = "getUnderlyingObjectStopAtMarkDependence" =>
       /\ call.res.st = "ok"
       /\ stripCastsWithoutMarkDependence(call.res.v) = Ok(call.res.v, 0)
       /\ stripAddressProjections(call.res.v) = Ok(call.res.v, 0)
       /\ stripIndexingInsts(call.res.v) = Ok(call.res.v, 0)

\* getUnderlyingObject of an indexing instruction on a projection: the
\* projection comes to light after the projections of the round are
\* stripped, and the next round strips it.
C29_Witness ==
  /\ call.fn = "getUnderlyingObject"
  /\ Len(ir) = 3
  /\ call.arg = 3
  /\ isIndexingInst(3)
  /\ ir[2].kind = "StructElementAddrInst"
  /\ call.res.st = "ok"
  /\ call.res.v = 1

(***************************************************************************)
(* Properties of the formal access base.                                   *)
(***************************************************************************)

\* Struct-field, tuple-element and enum-payload address projections, and
\* the instructions that index an address.
ProjectionChainKinds ==
  {"StructElementAddrInst", "TupleElementAddrInst", "UncheckedTakeEnumDataAddrInst",
   "IndexAddrInst", "TailAddrInst"}

\* The value a chain of such projections from V is built on.
RECURSIVE ChainBase(_)
ChainBase(V) ==
  IF Kind(V) \in ProjectionChainKinds THEN ChainBase(Operand(V, 1)) ELSE V

\* C8: for a stack allocation and a chain of any number of struct-field,
\* tuple-element and enum-payload address projections and indexing built on
\* it, findAccessedAddressBase of the chain returns the allocation.
C8_ProjectionChainRoot ==
  (call.fn = "findAccessedAddressBase"
     /\ Kind(ChainBase(call.arg)) = "AllocStackInst")
    => call.res.st = "ok" /\ call.res.v = ChainBase(call.arg)

\* The base was found under a chain of the greatest length, with an
\* enum-payload projection and an indexing instruction in it.
C8_Witness ==
  /\ call.fn = "findAccessedAddressBase"
  /\ Kind(ChainBase(call.arg)) = "AllocStackInst"
  /\ call.res.v = ChainBase(call.arg)
  /\ call.res.n = MaxAccessNodes - 1
  /\ \E V \in 1..Len(ir) : Kind(V) = "UncheckedTakeEnumDataAddrInst"
  /\ \E V \in 1..Len(ir) : isIndexingInst(V)

\* A base marked immutable: a let-bound stack allocation, box allocation or
\* global.
IsLetBase(V) ==
  Kind(V) \in {"AllocStackInst", "AllocBoxInst", "GlobalAddrInst"}
    /\ ir[V].attr = "let"

\* C9 as stated: isPossibleFormalAccessBase is false of exactly a function
\* argument, a pointer-to-address value and a base marked immutable, and
\* true of every other base.
C9_FalseExactlyForArgPointerLet ==
  call.fn = "isPossibleFormalAccessBase" =>
    (call.res = FALSE <=>
       \/ Kind(call.arg) = "SILFunctionArgument"
       \/ Kind(call.arg) = "PointerToAddressInst"
       \/ IsLetBase(call.arg))

\* C9, amended: isPossibleFormalAccessBase is false of exactly a function
\* argument, a pointer-to-address value, a base marked immutable and a base
\* whose type is the unsafe value buffer; it is true of every other base, a
\* mutable stack allocation of another type among them.
C9_FalseExactlyForArgPointerLetBuffer ==
  call.fn = "isPossibleFormalAccessBase" =>
    /\ call.res = FALSE <=>
         \/ Kind(call.arg) = "SILFunctionArgument"
         \/ Kind(call.arg) = "PointerToAddressInst"
         \/ IsLetBase(call.arg)
         \/ ir[call.arg].ty = "ValueBufferAddress"
    /\ (Kind(call.arg) = "AllocStackInst" /\ ir[call.arg].attr = "var"
          /\ ir[call.arg].ty = "Address") => call.res = TRUE

\* isPossibleFormalAccessBase refused a let-bound box allocation.
C9_Witness ==
  /\ call.fn = "isPossibleFormalAccessBase"
  /\ Kind(call.arg) = "AllocBoxInst"
  /\ ir[call.arg].attr = "let"
  /\ call.res = FALSE

\* The value the walk of findAccessedAddressBase from V stops at: the first
\* that is not looked through.
RECURSIVE WalkEnd(_)
WalkEnd(V) ==
  IF ir[V].kind \in AccessInductiveKinds \cup AccessSubobjectKinds
    THEN WalkEnd(ir[V].ops[1])
  ELSE V

\* V is the argument of a block whose one predecessor ends in switch_enum.
IsSwitchEnumArgument(V) ==
  /\ ir[V].kind = "SILPHIArgument"
  /\ ir[V].preds = 1
  /\ ir[V].term = "SwitchEnumInst"

\* The call stopped the program.
IsFatal(r) == r.st \in {"assert", "unreachable"}

InductiveWrappers ==
  {"MarkUninitializedInst", "OpenExistentialAddrInst", "UncheckedAddrCastInst",
   "CopyValueInst", "MarkDependenceInst", "ProjectBoxInst",
   "ProjectBlockStorageInst", "BeginBorrowInst", "StructElementAddrInst",
   "TupleElementAddrInst", "UncheckedTakeEnumDataAddrInst", "RefTailAddrInst",
   "TailAddrInst", "IndexAddrInst"}

ValueToAddressConversions ==
  {"OpenExistentialBoxInst", "ProjectExistentialBoxInst", "ProjectValueBufferInst"}

LocalInitializations ==
  {"InitEnumDataAddrInst", "InitExistentialAddrInst", "AllocExistentialBoxInst",
   "AllocValueBufferInst", "SILUndef"}

\* The value under the inductive wrappers of V.
RECURSIVE UnderWrappers(_)
UnderWrappers(V) ==
  IF ir[V].kind \in InductiveWrappers THEN UnderWrappers(ir[V].ops[1]) ELSE V

\* C15: when the value under the inductive wrappers of the input is a
\* conversion of a value to an address or a local initialization,
\* findAccessedAddressBase returns none and is not fatal, however many
\* wrappers there are.
C15_NoAccessRootIsNone ==
  (call.fn = "findAccessedAddressBase"
     /\ ir[UnderWrappers(call.arg)].kind
          \in ValueToAddressConversions \cup LocalInitializations)
    => call.res.st = "ok" /\ call.res.v = NoValue

\* None was returned for a project_value_buffer under a wrapper.
C15_Witness ==
  /\ call.fn = "findAccessedAddressBase"
  /\ ir[UnderWrappers(call.arg)].kind = "ProjectValueBufferInst"
  /\ UnderWrappers(call.arg) # call.arg
  /\ call.res.st = "ok"
  /\ call.res.v = NoValue

\* C26: a value findAccessedAddressBase returns, in a run that reaches no
\* llvm_unreachable and no failed assert, is of a base kind or the argument
\* of a switch_enum successor; it is reached from the input through first
\* operands, none of them the operand of a begin_access; it is of no
\* inductive or projection kind.
C26_ReturnsBaseOnly ==
  (/\ call.fn = "findAccessedAddressBase"
   /\ findAccessedAddressBase(call.arg).st = "ok"
   /\ call.res.v # NoValue) =>
    LET r == call.res.v IN
    /\ call.res.st = "ok"
    /\ \/ ir[r].kind \in {"AllocBoxInst", "AllocStackInst", "GlobalAddrInst",
                          "RefElementAddrInst", "SILFunctionArgument",
                          "BeginAccessInst", "PointerToAddressInst"}
       \/ IsSwitchEnumArgument(r)
    /\ \A W \in LookedThrough(call.arg, r) :
         /\ ir[W].ops # <<>> /\ ir[W].ops[1] = W - 1
         /\ ir[W].kind # "BeginAccessInst"
    /\ ir[r].kind \notin InductiveWrappers

\* A begin_access under a projection was returned, with a value below it.
C26_Witness ==
  /\ call.fn = "findAccessedAddressBase"
  /\ call.res.st = "ok"
  /\ call.res.v \notin {NoValue, call.arg, 1}
  /\ ir[call.res.v].kind = "BeginAccessInst"
  /\ ir[call.arg].kind \in AccessSubobjectKinds

\* C30: of an address built on a stack allocation, a global address or a
\* class field address by struct-field, tuple-element and enum-payload
\* address projections and indexing alone, findAccessedAddressBase and
\* getUnderlyingAddressRoot return the same value, the one the chain is
\* built on.
C30_BaseIsAddressRoot ==
  (/\ call.fn = "findAccessedAddressBase"
   /\ Kind(ChainBase(call.arg)) \in
        {"AllocStackInst", "GlobalAddrInst", "RefElementAddrInst"}) =>
    /\ call.res = findAccessedAddressBase(call.arg)
    /\ call.res.st = "ok"
    /\ getUnderlyingAddressRoot(call.arg).st = "ok"
    /\ call.res.v = getUnderlyingAddressRoot(call.arg).v
    /\ call.res.v = ChainBase(call.arg)

\* Both functions stopped at the class field address under an indexing
\* instruction.
C30_Witness ==
  /\ call.fn = "findAccessedAddressBase"
  /\ Kind(ChainBase(call.arg)) = "RefElementAddrInst"
  /\ isIndexingInst(call.arg)
  /\ call.res.st = "ok"
  /\ call.res.v = getUnderlyingAddressRoot(call.arg).v
  /\ call.res.v = Operand(call.arg, 1)

(***************************************************************************)
(* Properties of the closure finder.                                       *)
(***************************************************************************)

\* V without the function converters on it.
RECURSIVE Unconverted(_)
Unconverted(V) ==
  IF Kind(V) = "ConvertFunctionInst" THEN Unconverted(Operand(V, 1)) ELSE V

\* V without a borrow and the function converters under it.
Unwrapped(V) ==
  Unconverted(IF Kind(V) = "BeginBorrowInst" THEN Operand(V, 1) ELSE V)

\* p is a reabstraction thunk: a partial application of a function flagged
\* as a reabstraction thunk whose sole argument is a closure, a thick
\* function or a block.
AppliesReabstractionThunk(p) ==
  /\ Kind(p) = "PartialApplyInst"
  /\ NumOperands(p) = 2
  /\ Kind(ir[p].ops[1]) = "FunctionRefInst"
  /\ ir[ir[p].ops[1]].attr = "IsReabstractionThunk"
  /\ ir[ir[p].ops[2]].ty \in {"Function", "Block"}

\* The closure under a chain of reabstraction thunks: c is the partial
\* application that is no reabstraction thunk at the end of the chain from
\* V, k the number of reabstraction-thunk partial applications before it;
\* c is none when V is no such chain.
RECURSIVE ThunkChain(_)
ThunkChain(V) ==
  LET p == Unwrapped(V) IN
  IF ir[V].ty # "Function" \/ Kind(p) # "PartialApplyInst"
    THEN [c |-> NoValue, k |-> 0]
  ELSE IF ~AppliesReabstractionThunk(p) THEN [c |-> p, k |-> 0]
  ELSE LET inner == ThunkChain(ir[p].ops[2])
       IN [c |-> inner.c, k |-> inner.k + 1]

\* C10: findClosureForAppliedArg of a partial application c that is no
\* reabstraction thunk is (c, false); of a chain of k >= 1 reabstraction
\* thunks over such a c, each level behind a borrow, function converters or
\* neither, it is (c, true), whatever k is.
C10_ClosureUnderThunks ==
  (call.fn = "findClosureForAppliedArg" /\ ThunkChain(call.arg).c # NoValue) =>
    /\ call.res.st = "ok"
    /\ call.res.v = ThunkChain(call.arg).c
    /\ call.res.thunk = (ThunkChain(call.arg).k >= 1)

\* The closure was found under two reabstraction thunks.
C10_Witness ==
  /\ call.fn = "findClosureForAppliedArg"
  /\ ThunkChain(call.arg).c # NoValue
  /\ ThunkChain(call.arg).k = 2
  /\ call.res.thunk

\* The value under the block copies of V.
RECURSIVE UnderCopies(_)
UnderCopies(V) ==
  IF ir[V].kind = "CopyBlockInst" THEN UnderCopies(ir[V].ops[1]) ELSE V

\* The pattern init_block_storage_header, project_block_storage, store is
\* behind the block V: V is the header of a storage with one projection,
\* into which there is one store.
HasBlockPattern(V) ==
  /\ ir[V].kind = "InitBlockStorageHeaderInst"
  /\ getSingleUserOfType(ir[V].ops[1], "ProjectBlockStorageInst") # NoValue
  /\ getSingleUserOfType(getSingleUserOfType(ir[V].ops[1], "ProjectBlockStorageInst"),
                         "StoreInst") # NoValue

\* C16 as stated: for a block, findClosureForAppliedArg returns (none,
\* false) whenever the pattern is not found behind the block copies: no
\* init_block_storage_header is reached, the storage has no single
\* project_block_storage user, or that has no single store user; the call
\* is fatal in none of these cases.
C16_MissingPatternIsNone ==
  (/\ call.fn = "findClosureForAppliedArg"
   /\ ir[call.arg].ty = "Block"
   /\ ~HasBlockPattern(UnderCopies(call.arg)))
    => call.res.st = "ok" /\ call.res.v = NoValue /\ call.res.thunk = FALSE

\* C20: findClosureForAppliedArg of a partial application of a reabstraction
\* thunk is the result for the thunk's argument with the flag true, also
\* when that result is none; of a function value that, with its borrow
\* looked through, is no partial application under its function converters
\* it is (none, false).
C20_ThunkForcesFlag ==
  call.fn = "findClosureForAppliedArg" =>
    /\ (AppliesReabstractionThunk(call.arg)
          /\ findClosureForAppliedArg(ir[call.arg].ops[2]).st = "ok") =>
         /\ call.res.st = "ok"
         /\ call.res.v = findClosureForAppliedArg(ir[call.arg].ops[2]).v
         /\ call.res.thunk = TRUE
    /\ (ir[call.arg].ty = "Function"
          /\ ir[Unwrapped(call.arg)].kind # "PartialApplyInst") =>
         call.res.st = "ok" /\ call.res.v = NoValue /\ call.res.thunk = FALSE

\* A reabstraction thunk over a function converter over a value that is no
\* closure gave (none, true).
C20_Witness ==
  /\ call.fn = "findClosureForAppliedArg"
  /\ AppliesReabstractionThunk(call.arg)
  /\ ir[ir[call.arg].ops[2]].kind = "ConvertFunctionInst"
  /\ findClosureForAppliedArg(ir[call.arg].ops[2]) = FindClosureResult(NoValue, FALSE, 1)
  /\ call.res.st = "ok"
  /\ call.res.v = NoValue
  /\ call.res.thunk = TRUE

\* C27: findClosureForAppliedArg returns on every acyclic operand graph,
\* one where the closure stored into a block is a reabstraction thunk
\* applied to that block among them.
C27_ClosureFinderTerminates ==
  call.fn = "findClosureForAppliedArg" => call.res.st # "diverged"

(***************************************************************************)
(* Properties of the ownership evaluator.                                  *)
(***************************************************************************)

\* The evaluator state the two flags <<hasQualifiedOwnership,
\* HasOwnershipQualifiedInstruction>> encode.
StateName(flags) ==
  IF ~flags[1] THEN "Unqualified"
  ELSE IF flags[2] THEN "QualifiedWithEvidence"
  ELSE "QualifiedNoEvidence"

Flags(f) == <<hasQualifiedOwnership[f], HasOwnershipQualifiedInstruction[f]>>

Kinds(s) == [i \in 1..Len(s) |-> s[i].kind]

Applicable(e) == e.kind # "NotApplicable"

ApplicableCalls(s) == SelectSeq(s, Applicable)

\* The log tells the truth about the flags: each call starts where the one
\* before ended and the last one ended in the current flags.
LogMatchesFlags(f) ==
  /\ \A i \in 1..Len(log[f]) :
       log[f][i].pre = (IF i = 1 THEN <<TRUE, FALSE>> ELSE log[f][i - 1].post)
  /\ Len(log[f]) > 0 => log[f][Len(log[f])].post = Flags(f)

\* C1: from QualifiedNoEvidence, a call on an applicable instruction is
\* accepted if and only if its dialect is that of the first applicable
\* instruction of the sequence; [Qualified, Qualified] is accepted and ends in
\* QualifiedWithEvidence, [Qualified, Unqualified] rejects the second call,
\* [Unqualified, Unqualified] is accepted.
C1_AcceptedIffFirstDialect ==
  \A f \in Funcs :
    LET app == ApplicableCalls(log[f]) IN
    /\ LogMatchesFlags(f)
    /\ \A i \in 1..Len(app) : app[i].accepted <=> (app[i].kind = app[1].kind)
    /\ Kinds(log[f]) = <<"Qualified", "Qualified">> =>
         /\ log[f][1].accepted /\ log[f][2].accepted
         /\ StateName(Flags(f)) = "QualifiedWithEvidence"
    /\ Kinds(log[f]) = <<"Qualified", "Unqualified">> =>
         log[f][1].accepted /\ ~log[f][2].accepted
    /\ Kinds(log[f]) = <<"Unqualified", "Unqualified">> =>
         log[f][1].accepted /\ log[f][2].accepted

\* Both dialects were evaluated on one function, qualified first, and a
\* qualified instruction was evaluated again after the rejection.
C1_Witness ==
  \E f \in Funcs :
    /\ Kinds(log[f]) = <<"Qualified", "NotApplicable", "Unqualified", "Qualified">>
    /\ ~log[f][3].accepted
    /\ log[f][4].accepted

\* C2: an Unqualified instruction is accepted without a change in state
\* Unqualified, rejected in state QualifiedWithEvidence, and accepted with
\* the state becoming Unqualified in state QualifiedNoEvidence.
C2_UnqualifiedCases ==
  \A f \in Funcs : \A i \in 1..Len(log[f]) :
    LET e == log[f][i] IN
    /\ LogMatchesFlags(f)
    /\ e.kind = "Unqualified" =>
         CASE StateName(e.pre) = "Unqualified" -> e.accepted /\ e.post = e.pre
           [] StateName(e.pre) = "QualifiedWithEvidence" -> ~e.accepted
           [] StateName(e.pre) = "QualifiedNoEvidence" ->
                e.accepted /\ StateName(e.post) = "Unqualified"

\* An unqualified instruction was evaluated in each of the three states.
C2_Witness ==
  \E f, g \in Funcs :
    /\ \E i \in 1..Len(log[f]) :
         log[f][i].kind = "Unqualified"
           /\ StateName(log[f][i].pre) = "QualifiedWithEvidence"
    /\ \E i, j \in 1..Len(log[g]) :
         /\ log[g][i].kind = "Unqualified"
         /\ StateName(log[g][i].pre) = "QualifiedNoEvidence"
         /\ log[g][j].kind = "Unqualified"
         /\ StateName(log[g][j].pre) = "Unqualified"

\* C3: a Qualified instruction is rejected in state Unqualified; in state
\* QualifiedNoEvidence or QualifiedWithEvidence it is accepted and the state
\* afterwards is QualifiedWithEvidence.
C3_QualifiedCases ==
  \A f \in Funcs : \A i \in 1..Len(log[f]) :
    LET e == log[f][i] IN
    /\ LogMatchesFlags(f)
    /\ e.kind = "Qualified" =>
         IF StateName(e.pre) = "Unqualified"
         THEN ~e.accepted
         ELSE e.accepted /\ StateName(e.post) = "QualifiedWithEvidence"

\* A qualified instruction was evaluated in each of the three states.
C3_Witness ==
  \E f, g \in Funcs :
    /\ \E i \in 1..Len(log[f]) :
         log[f][i].kind = "Qualified" /\ StateName(log[f][i].pre) = "Unqualified"
    /\ \E i, j \in 1..Len(log[g]) :
         /\ log[g][i].kind = "Qualified"
         /\ StateName(log[g][i].pre) = "QualifiedNoEvidence"
         /\ log[g][j].kind = "Qualified"
         /\ StateName(log[g][j].pre) = "QualifiedWithEvidence"

\* The evaluator run on the instruction kinds ks from the flags hq and seen:
\* the results returned and the flags at the end.
RECURSIVE Replay(_, _, _)
Replay(ks, hq, seen) ==
  IF ks = <<>> THEN [rets |-> <<>>, flags |-> <<hq, seen>>]
  ELSE LET r == evaluateKind(Head(ks), hq, seen)
           rest == Replay(Tail(ks), r.hq, r.seen)
       IN [rets |-> <<r.ret>> \o rest.rets, flags |-> rest.flags]

\* C4: a NotApplicable instruction is accepted and leaves both flags as they
\* were, in every state; a sequence with NotApplicable instructions in it
\* gives every other call the result, and the function the final state, that
\* the sequence without them gives.
C4_NotApplicableIsTransparent ==
  \A f \in Funcs :
    LET app == ApplicableCalls(log[f])
        alone == Replay(Kinds(app), TRUE, FALSE)
    IN /\ LogMatchesFlags(f)
       /\ \A i \in 1..Len(log[f]) :
            log[f][i].kind = "NotApplicable" =>
              log[f][i].accepted /\ log[f][i].post = log[f][i].pre
       /\ alone.rets = [i \in 1..Len(app) |-> app[i].accepted]
       /\ alone.flags = Flags(f)

\* NotApplicable instructions were evaluated in each state, between
\* applicable ones.
C4_Witness ==
  \E f, g \in Funcs :
    /\ Kinds(log[f]) = <<"NotApplicable", "Qualified", "NotApplicable", "Unqualified">>
    /\ Kinds(log[g]) = <<"Unqualified", "NotApplicable", "Qualified">>

\* The states in which the evaluator has settled on a dialect.
TerminalStates == {"Unqualified", "QualifiedWithEvidence"}

\* The call of entry e mixes the dialects: a qualified instruction in a
\* function known to be unqualified, or an unqualified one in a function
\* with a qualified instruction.
MixesDialects(e) ==
  \/ e.kind = "Qualified" /\ StateName(e.pre) = "Unqualified"
  \/ e.kind = "Unqualified" /\ StateName(e.pre) = "QualifiedWithEvidence"

\* C17 as stated: no evaluate call stops the program; each, whatever
\* instruction it is given, returns a boolean.
C17_EvaluateNeverAborts ==
  /\ call = NoCall
  /\ \A f \in Funcs : \A i \in 1..Len(log[f]) : log[f][i].accepted \in BOOLEAN

\* C17, amended: an evaluate call stops the program only by the assert on an
\* instruction that does not belong to the evaluator's function; every
\* other call returns a boolean, and a call that mixes the dialects returns
\* false.
C17_AbortsOnlyOnForeignInstruction ==
  /\ call # NoCall =>
       call.fn = "evaluate" /\ call.res.st = "assert" /\ call.inst # call.arg
  /\ \A f \in Funcs : \A i \in 1..Len(log[f]) :
       /\ log[f][i].accepted \in BOOLEAN
       /\ MixesDialects(log[f][i]) => log[f][i].accepted = FALSE
       /\ log[f][i].accepted = FALSE => MixesDialects(log[f][i])

\* An evaluator that had reported a mix of dialects as false was given an
\* instruction of another function, and the assert failed.
C17_Witness ==
  /\ call # NoCall
  /\ call.res.st = "assert"
  /\ \E i \in 1..Len(log[call.arg]) : ~log[call.arg][i].accepted

\* C18: the evaluators of two functions do not affect each other: however
\* their calls interleave, the results of each and the final state of its
\* function are those of its own sequence of instructions evaluated alone.
C18_EvaluatorsIndependent ==
  \A f \in Funcs :
    LET alone == Replay(Kinds(log[f]), TRUE, FALSE)
    IN /\ alone.rets = [i \in 1..Len(log[f]) |-> log[f][i].accepted]
       /\ alone.flags = Flags(f)

\* Two evaluators have each made calls, one on a function that ended
\* unqualified, the other on one with qualified evidence, each with a
\* rejection.
C18_Witness ==
  \E f, g \in Funcs :
    /\ StateName(Flags(f)) = "Unqualified"
    /\ StateName(Flags(g)) = "QualifiedWithEvidence"
    /\ \E i \in 1..Len(log[f]) : ~log[f][i].accepted
    /\ \E i \in 1..Len(log[g]) : ~log[g][i].accepted
    /\ Flags(f) = Replay(Kinds(log[f]), TRUE, FALSE).flags

\* C19: a call made in state Unqualified or QualifiedWithEvidence, accepted
\* or rejected, on an instruction of any kind, leaves the flags as they
\* were; a rejected call leaves them as they were in every state.
C19_TerminalStatesStay ==
  \A f \in Funcs :
    /\ LogMatchesFlags(f)
    /\ \A i \in 1..Len(log[f]) :
         /\ StateName(log[f][i].pre) \in TerminalStates =>
              log[f][i].post = log[f][i].pre
         /\ ~log[f][i].accepted => log[f][i].post = log[f][i].pre

\* In each of the two terminal states calls of all three kinds were made,
\* a rejected one among them.
C19_Witness ==
  \E f, g \in Funcs :
    /\ \A k \in OwnershipQualifiedKind : \E i \in 1..Len(log[f]) :
         log[f][i].kind = k /\ StateName(log[f][i].pre) = "Unqualified"
    /\ \A k \in OwnershipQualifiedKind : \E i \in 1..Len(log[g]) :
         log[g][i].kind = k /\ StateName(log[g][i].pre) = "QualifiedWithEvidence"
    /\ \E i \in 1..Len(log[f]) : ~log[f][i].accepted
    /\ \E i \in 1..Len(log[g]) : ~log[g][i].accepted

\* C24: end_borrow, load_borrow, copy_value, copy_unowned_value and
\* destroy_value are Qualified; a load or a store is Unqualified exactly
\* when its ownership qualifier is unqualified and Qualified otherwise;
\* every other instruction is NotApplicable.
C24_Classification ==
  call.fn = "OwnershipQualifiedKindVisitor" =>
    LET I == ir[call.arg] IN
    call.res.kind =
      IF I.kind \in {"EndBorrowInst", "LoadBorrowInst", "CopyValueInst",
                     "CopyUnownedValueInst", "DestroyValueInst"}
      THEN "Qualified"
      ELSE IF I.kind \in {"LoadInst", "StoreInst"}
        THEN IF I.qual = "Unqualified" THEN "Unqualified" ELSE "Qualified"
      ELSE "NotApplicable"

\* A store with a qualifier other than unqualified was classified after an
\* unqualified load in the same body.
C24_Witness ==
  /\ call.fn = "OwnershipQualifiedKindVisitor"
  /\ call.arg = 2
  /\ ir[2].kind = "StoreInst" /\ ir[2].qual = "Assign"
  /\ ir[1].kind = "LoadInst" /\ ir[1].qual = "Unqualified"
  /\ call.res.kind = "Qualified"

\* C25: no evaluator is ever in the combination of unqualified ownership
\* with a qualified instruction seen: before and after every call the two
\* flags encode one of the three states.
C25_NoFourthState ==
  \A f \in Funcs :
    /\ LogMatchesFlags(f)
    /\ ~(~hasQualifiedOwnership[f] /\ HasOwnershipQualifiedInstruction[f])
    /\ \A i \in 1..Len(log[f]) :
         /\ ~(~log[f][i].pre[1] /\ log[f][i].pre[2])
         /\ ~(~log[f][i].post[1] /\ log[f][i].post[2])

\* One evaluator rejected an unqualified instruction after qualified ones,
\* another a qualified instruction after unqualified ones.
C25_Witness ==
  \E f, g \in Funcs :
    /\ Kinds(log[f]) = <<"Qualified", "Unqualified", "Qualified">>
    /\ Kinds(log[g]) = <<"Unqualified", "Qualified", "Unqualified">>
    /\ StateName(Flags(f)) = "QualifiedWithEvidence"
    /\ StateName(Flags(g)) = "Unqualified"

=============================================================================
